---------------------------- MODULE Spec2Model ----------------------------
(***************************************************************************)
(* A model of the PS1-style software rasterizer of src/wasm/rasterizer.cpp *)
(* (globals shared with the host, the exported API, the triangle front-end *)
(* and rasterizer, the clear path and the material baker).                 *)
(*                                                                         *)
(* Numbers.  TLC has no floats.  A float of the program is modelled as an  *)
(* exact fixed-point rational: NDC positions, matrix entries, normals and  *)
(* light scalars in units of 1/FX, screen positions in units of 1/SFX      *)
(* (SFX = 2*FX, so that the viewport transform is exact), edge values in   *)
(* units of 1/SFX^2.  Sums and products are exact; a division rounds       *)
(* toward zero.  A 32-bit pixel word 0xAABBGGRR is the record of its four  *)
(* bytes [r, g, b, a] (TLC's integers are 32-bit signed).                  *)
(***************************************************************************)
EXTENDS Integers, Sequences, FiniteSets, TLC

(***************************************************************************)
(* Program constants (src/wasm/rasterizer.cpp, "Configuration").           *)
(***************************************************************************)
MAX_RENDER_WIDTH == 1920
MAX_RENDER_HEIGHT == 1200
MAX_PIXEL_COUNT == MAX_RENDER_WIDTH * MAX_RENDER_HEIGHT
MAX_TEXTURES == 16
MAX_THREADS == 8
MIN_TRIANGLES_PER_THREAD == 64
INT32_MAX == 2147483647
INT32_MIN == -INT32_MAX - 1
CLEAR_DEPTH == 65535
SIMD_CLEAR_STRIDE == 16

(***************************************************************************)
(* Bounds of the model.                                                    *)
(***************************************************************************)
\* fixed-point denominator of NDC-range quantities
FX == 2
\* the modelled prefix of g_pixels / g_depth (of MAX_PIXEL_COUNT entries)
BufLen == 52
\* resolution used by the rendering specification
RW == 5
RH == 3

SFX == 2 * FX

VARIABLES
    g_render_width, g_render_height, g_pixel_count,
    g_pixels, g_depth,
    g_vertices, g_indices, g_vertex_count, g_index_count,
    g_textures, g_texture_sizes, g_current_texture,
    g_mvp_matrix, g_model_matrix, g_light_dir, g_light_color,
    g_ambient_light, g_enable_lighting, g_enable_dithering,
    g_enable_texturing, g_enable_backface_culling,
    g_enable_vertex_snapping, g_enable_smooth_shading,
    g_snap_resolution_x, g_snap_resolution_y,
    g_vertex_cache, g_vertex_processed,
    g_thread_count, workData, threadCreated, workers,
    g_bake_output, g_bake_program, g_bake_width, g_bake_height,
    g_bake_source_texture,
    pc, cur_t,
    call, frames, edits, since_clear, process_calls, handed

resVars == <<g_render_width, g_render_height, g_pixel_count>>
bufVars == <<g_pixels, g_depth>>
meshVars == <<g_vertices, g_indices, g_vertex_count, g_index_count>>
texVars == <<g_textures, g_texture_sizes>>
xformVars == <<g_mvp_matrix, g_model_matrix, g_light_dir, g_light_color>>
flagVars == <<g_ambient_light, g_enable_lighting, g_enable_dithering,
              g_enable_texturing, g_enable_backface_culling,
              g_enable_vertex_snapping, g_enable_smooth_shading,
              g_snap_resolution_x, g_snap_resolution_y>>
\* process_calls is a ghost: the calls of process_vertex per vertex since the
\* flags were last cleared
cacheVars == <<g_vertex_cache, g_vertex_processed, process_calls>>
\* the thread count, and the locals of render_triangles_parallel with the
\* position of each worker; handed is a ghost: how often each triangle has
\* been fetched by a worker since the call began
threadVars == <<g_thread_count, workData, threadCreated, workers, handed>>
bakeVars == <<g_bake_output, g_bake_program, g_bake_width, g_bake_height,
              g_bake_source_texture>>
ctlVars == <<pc, cur_t>>

\* ghosts: the count of frame-producing calls (render_triangles,
\* bake_material), of setter calls, and of render_triangles calls since the
\* last clear (-1: never cleared)
ghostVars == <<frames, edits, since_clear>>

vars == <<resVars, bufVars, meshVars, texVars, g_current_texture, xformVars,
          flagVars, cacheVars, threadVars, bakeVars, ctlVars, call, ghostVars>>


(***************************************************************************)
(* The globals gathered in one record, so that the rendering operators can *)
(* be applied to the current state and to variations of it.                *)
(***************************************************************************)
G ==
    [render_width |-> g_render_width, render_height |-> g_render_height,
     pixels |-> g_pixels, depth |-> g_depth,
     vertices |-> g_vertices, indices |-> g_indices,
     vertex_count |-> g_vertex_count, index_count |-> g_index_count,
     textures |-> g_textures, texture_sizes |-> g_texture_sizes,
     current_texture |-> g_current_texture,
     mvp_matrix |-> g_mvp_matrix, model_matrix |-> g_model_matrix,
     light_dir |-> g_light_dir, light_color |-> g_light_color,
     ambient_light |-> g_ambient_light,
     enable_lighting |-> g_enable_lighting,
     enable_dithering |-> g_enable_dithering,
     enable_texturing |-> g_enable_texturing,
     enable_backface_culling |-> g_enable_backface_culling,
     enable_vertex_snapping |-> g_enable_vertex_snapping,
     enable_smooth_shading |-> g_enable_smooth_shading,
     snap_resolution_x |-> g_snap_resolution_x,
     snap_resolution_y |-> g_snap_resolution_y,
     vertex_cache |-> g_vertex_cache,
     vertex_processed |-> g_vertex_processed,
     process_calls |-> process_calls]

(***************************************************************************)
(* Math utilities.                                                         *)
(***************************************************************************)
Abs(a) == IF a < 0 THEN -a ELSE a

\* C's conversion and the model's division: rounding toward zero
TruncDiv(a, b) ==
    IF (a >= 0) = (b > 0) THEN Abs(a) \div Abs(b) ELSE -(Abs(a) \div Abs(b))

\* floorf of the rational a/b, b > 0
FloorDiv(a, b) == a \div b

Min2(a, b) == IF a < b THEN a ELSE b
Max2(a, b) == IF a > b THEN a ELSE b

min3(a, b, c) == IF a < b THEN (IF a < c THEN a ELSE c) ELSE (IF b < c THEN b ELSE c)
max3(a, b, c) == IF a > b THEN (IF a > c THEN a ELSE c) ELSE (IF b > c THEN b ELSE c)

RECURSIVE SqrtSearch(_, _, _)
SqrtSearch(n, lo, hi) ==
    IF lo >= hi THEN lo
    ELSE LET mid == (lo + hi + 1) \div 2
         IN IF mid * mid <= n THEN SqrtSearch(n, mid, hi)
            ELSE SqrtSearch(n, lo, mid - 1)

\* sqrtf, rounded down to the grid
ISqrt(n) == SqrtSearch(n, 0, Min2(n, 46340))

Vec3(x, y, z) == [x |-> x, y |-> y, z |-> z]
VSub(a, b) == Vec3(a.x - b.x, a.y - b.y, a.z - b.z)
VNeg(a) == Vec3(-a.x, -a.y, -a.z)
\* dot and cross of two vectors in units 1/FX: the result is in units 1/FX^2
VDot(a, b) == a.x * b.x + a.y * b.y + a.z * b.z
VCross(a, b) ==
    Vec3(a.y * b.z - a.z * b.y, a.z * b.x - a.x * b.z, a.x * b.y - a.y * b.x)

\* Vec3::normalize: the zero vector when the length is below 0.0001 (on the
\* grid: when it is 0), else the vector scaled to unit length (units 1/FX)
VNormalize(a) ==
    LET len == ISqrt(VDot(a, a))
    IN IF len = 0 THEN Vec3(0, 0, 0)
       ELSE Vec3(TruncDiv(a.x * FX, len), TruncDiv(a.y * FX, len),
                 TruncDiv(a.z * FX, len))

\* row-major 4x4 matrix (entries m[0..15], units 1/FX) times (x, y, z, w)
mat4_mul_vec4(m, v) ==
    [x |-> TruncDiv(m[0] * v.x + m[1] * v.y + m[2] * v.z + m[3] * v.w, FX),
     y |-> TruncDiv(m[4] * v.x + m[5] * v.y + m[6] * v.z + m[7] * v.w, FX),
     z |-> TruncDiv(m[8] * v.x + m[9] * v.y + m[10] * v.z + m[11] * v.w, FX),
     w |-> TruncDiv(m[12] * v.x + m[13] * v.y + m[14] * v.z + m[15] * v.w, FX)]

mat4_mul_dir(m, v) ==
    Vec3(TruncDiv(m[0] * v.x + m[1] * v.y + m[2] * v.z, FX),
         TruncDiv(m[4] * v.x + m[5] * v.y + m[6] * v.z, FX),
         TruncDiv(m[8] * v.x + m[9] * v.y + m[10] * v.z, FX))

\* Vec4::perspectiveDivide: (x,y,z) unchanged when |w| < 0.0001
perspectiveDivide(c) ==
    IF c.w = 0 THEN Vec3(c.x, c.y, c.z)
    ELSE Vec3(TruncDiv(c.x * FX, c.w), TruncDiv(c.y * FX, c.w),
              TruncDiv(c.z * FX, c.w))

\* min(1, ambient + ndotl * intensity), ndotl = max(0, -n.l)
LightOf(Gx, normal) ==
    LET lightDir == Vec3(Gx.light_dir[0], Gx.light_dir[1], Gx.light_dir[2])
        ndotl == Max2(0, TruncDiv(-VDot(normal, lightDir), FX))
    IN Min2(FX, Gx.ambient_light + TruncDiv(ndotl * Gx.light_color[3], FX))

(***************************************************************************)
(* process_vertex: one source vertex through the MVP pipeline.  screen.x   *)
(* and screen.y are in units 1/SFX; depth, world, normal, affine and light *)
(* in units 1/FX; u and v (pre-multiplied by affine) in units 1/FX^2.      *)
(***************************************************************************)
SnapCoord(enabled, c, snap) ==
    IF enabled # 0 THEN TruncDiv(FloorDiv(c * snap, FX) * FX, snap) ELSE c

AffineOf(w) ==
    IF w >= 1 THEN w + TruncDiv(TruncDiv(w * 8 * FX, w), 2)
    ELSE 4000 * w

process_vertex(Gx, idx) ==
    LET v == Gx.vertices[idx]
        pos == [x |-> v.x, y |-> v.y, z |-> v.z, w |-> FX]
        clip == mat4_mul_vec4(Gx.mvp_matrix, pos)
        ndc0 == perspectiveDivide(clip)
        ndcx == SnapCoord(Gx.enable_vertex_snapping, ndc0.x, Gx.snap_resolution_x)
        ndcy == SnapCoord(Gx.enable_vertex_snapping, ndc0.y, Gx.snap_resolution_y)
        screenX == (ndcx + FX) * Gx.render_width
        screenY == (FX - ndcy) * Gx.render_height
        worldNormal == VNormalize(mat4_mul_dir(Gx.model_matrix, Vec3(v.nx, v.ny, v.nz)))
        worldPos == mat4_mul_vec4(Gx.model_matrix, pos)
        affine == AffineOf(clip.w)
        light == IF Gx.enable_lighting # 0 THEN LightOf(Gx, worldNormal) ELSE FX
    IN [screen |-> Vec3(screenX, screenY, ndc0.z),
        world |-> Vec3(worldPos.x, worldPos.y, worldPos.z),
        normal |-> worldNormal,
        depth |-> ndc0.z,
        u |-> v.u * affine, v |-> v.v * affine,
        r |-> v.r, g |-> v.g, b |-> v.b,
        affine |-> affine,
        light |-> light]

(***************************************************************************)
(* rasterize_triangle.  S is the per-triangle setup (everything computed   *)
(* before the row loop); w = <<w0, w1, w2>> the three edge values at a     *)
(* pixel centre.                                                           *)
(***************************************************************************)
DEPTH_SCALE_X2 == 65535
AREA_EPS_INV == 10000
U16_RANGE == 65536
ALPHA_GEOMETRY == 255

Clamp255(c) == IF c < 0 THEN 0 ELSE IF c > 255 THEN 255 ELSE c

\* C's % (the sign follows the dividend)
CRem(a, b) == a - b * TruncDiv(a, b)

\* a slot test that forgets the enable_texturing flag
TexSlotInRangeAnyFlag(Gx) ==
    /\ Gx.current_texture >= 0
    /\ Gx.current_texture < MAX_TEXTURES

\* texturing is used only for a slot in [0, MAX_TEXTURES) with a size > 0
TexSlotInRange(Gx) ==
    /\ Gx.enable_texturing # 0
    /\ Gx.current_texture >= 0
    /\ Gx.current_texture < MAX_TEXTURES

TexWidth(Gx) == IF TexSlotInRange(Gx) THEN Gx.texture_sizes[Gx.current_texture * 2] ELSE 0
TexHeight(Gx) == IF TexSlotInRange(Gx) THEN Gx.texture_sizes[Gx.current_texture * 2 + 1] ELSE 0

UseTexture(Gx) == TexSlotInRange(Gx) /\ TexWidth(Gx) > 0 /\ TexHeight(Gx) > 0

TriSetup(Gx, v0, v1, v2) ==
    LET x0 == v0.screen.x  y0 == v0.screen.y
        x1 == v1.screen.x  y1 == v1.screen.y
        x2 == v2.screen.x  y2 == v2.screen.y
        A01 == y0 - y1  B01 == x1 - x0
    IN [minX |-> max3(0, TruncDiv(min3(x0, x1, x2), SFX), 0),
        maxX |-> min3(TruncDiv(max3(x0, x1, x2), SFX) + 1,
                      Gx.render_width - 1, Gx.render_width - 1),
        minY |-> max3(0, TruncDiv(min3(y0, y1, y2), SFX), 0),
        maxY |-> min3(TruncDiv(max3(y0, y1, y2), SFX) + 1,
                      Gx.render_height - 1, Gx.render_height - 1),
        x0 |-> x0, y0 |-> y0, x1 |-> x1, y1 |-> y1, x2 |-> x2, y2 |-> y2,
        A01 |-> A01, B01 |-> B01,
        A12 |-> y1 - y2, B12 |-> x2 - x1,
        A20 |-> y2 - y0, B20 |-> x0 - x2,
        area |-> A01 * (x2 - x0) + B01 * (y2 - y0),
        d |-> <<v0.depth, v1.depth, v2.depth>>,
        r |-> <<v0.r * v0.light, v1.r * v1.light, v2.r * v2.light>>,
        g |-> <<v0.g * v0.light, v1.g * v1.light, v2.g * v2.light>>,
        b |-> <<v0.b * v0.light, v1.b * v1.light, v2.b * v2.light>>,
        u |-> <<v0.u, v1.u, v2.u>>,
        v |-> <<v0.v, v1.v, v2.v>>,
        affine |-> <<v0.affine, v1.affine, v2.affine>>,
        useTexture |-> UseTexture(Gx),
        texIdx |-> Gx.current_texture,
        texW |-> TexWidth(Gx),
        texH |-> TexHeight(Gx)]

\* a0*bw0 + a1*bw1 + a2*bw2, times area
Bary(a, w) == a[1] * w[1] + a[2] * w[2] + a[3] * w[3]

Sgn(S) == IF S.area < 0 THEN -1 ELSE 1

InsideTest(w) ==
    \/ (w[1] >= 0 /\ w[2] >= 0 /\ w[3] >= 0)
    \/ (w[1] <= 0 /\ w[2] <= 0 /\ w[3] <= 0)

\* (depthF + 1) * 32767.5 as the fraction DepthNum / DepthDen, DepthDen > 0
DepthNum(S, w) == Sgn(S) * (Bary(S.d, w) + FX * S.area) * DEPTH_SCALE_X2
DepthDen(S) == Sgn(S) * 2 * FX * S.area

\* (uint16_t)((depthF + 1.0f) * 32767.5f)
DepthU16(S, w) == TruncDiv(DepthNum(S, w), DepthDen(S)) % U16_RANGE

\* a depth test that also passes on equality
ScalarDepthPassOrEqual(S, w, old) == DepthU16(S, w) <= old

\* the scalar paths compare the converted depth: depth < rowDepth[x]
ScalarDepthPass(S, w, old) == DepthU16(S, w) < old

\* the fast path compares the unconverted float: depth_u16 < old_depth_f
SimdDepthPass(S, w, old) == DepthNum(S, w) < old * DepthDen(S)

\* one interpolated, lit channel, clamped to [0, 255] and converted
Channel(S, c, w) == Clamp255(TruncDiv(Sgn(S) * Bary(c, w), Sgn(S) * FX * S.area))

PackABGR(r, g, b) == [r |-> r, g |-> g, b |-> b, a |-> ALPHA_GEOMETRY]

FlatColor(S, w) == PackABGR(Channel(S, S.r, w), Channel(S, S.g, w), Channel(S, S.b, w))

\* the texel coordinates of the textured path
TexU(S, w) ==
    LET q0 == FX * Bary(S.affine, w)
        sg == IF q0 < 0 THEN -1 ELSE 1
        q == sg * q0
        frac == (sg * Bary(S.u, w)) % q
        tx == TruncDiv(frac * S.texW, q)
    IN CRem(CRem(tx, S.texW) + S.texW, S.texW)

\* the row coordinate without the wrap into the texture
TexVUnwrapped(S, w) ==
    LET q0 == FX * Bary(S.affine, w)
        sg == IF q0 < 0 THEN -1 ELSE 1
        q == sg * q0
        frac == (sg * Bary(S.v, w)) % q
    IN TruncDiv((q - frac) * S.texH, q)

TexV(S, w) ==
    LET q0 == FX * Bary(S.affine, w)
        sg == IF q0 < 0 THEN -1 ELSE 1
        q == sg * q0
        frac == (sg * Bary(S.v, w)) % q
        ty == TruncDiv((q - frac) * S.texH, q)
    IN CRem(CRem(ty, S.texH) + S.texH, S.texH)

TexChannel(S, texel, c, w) ==
    Clamp255(TruncDiv(texel * Sgn(S) * Bary(c, w), Sgn(S) * FX * S.area * 255))

TexturedColor(Gx, S, w) ==
    LET texOffset == (TexV(S, w) * S.texW + TexU(S, w)) * 4
        texData == Gx.textures[S.texIdx]
    IN PackABGR(TexChannel(S, texData[texOffset], S.r, w),
                TexChannel(S, texData[texOffset + 1], S.g, w),
                TexChannel(S, texData[texOffset + 2], S.b, w))

\* a write of the colour that leaves the stored depth alone
WritePixelColourOnly(Gx, idx, depth, colour) == [Gx EXCEPT !.pixels[idx] = colour]

\* rowDepth[x] = depth; rowPixels[x] = colour
WritePixel(Gx, idx, depth, colour) ==
    [Gx EXCEPT !.depth[idx] = depth, !.pixels[idx] = colour]

WStep(S, w, n) ==
    <<w[1] + S.A12 * SFX * n, w[2] + S.A20 * SFX * n, w[3] + S.A01 * SFX * n>>

\* one lane of the 4-wide fast path
SimdLane(Gx, S, y, x, w) ==
    LET idx == y * Gx.render_width + x
    IN IF InsideTest(w) /\ SimdDepthPass(S, w, Gx.depth[idx])
       THEN WritePixel(Gx, idx, DepthU16(S, w), FlatColor(S, w))
       ELSE Gx

SimdGroup(Gx, S, y, x, w) ==
    LET g1 == SimdLane(Gx, S, y, x, w)
        g2 == SimdLane(g1, S, y, x + 1, WStep(S, w, 1))
        g3 == SimdLane(g2, S, y, x + 2, WStep(S, w, 2))
    IN SimdLane(g3, S, y, x + 3, WStep(S, w, 3))

\* one pixel of the scalar tail
ScalarPixel(Gx, S, y, x, w) ==
    LET idx == y * Gx.render_width + x
    IN IF InsideTest(w) /\ ScalarDepthPass(S, w, Gx.depth[idx])
       THEN WritePixel(Gx, idx, DepthU16(S, w), FlatColor(S, w))
       ELSE Gx

\* one pixel of the textured path
TexturedPixel(Gx, S, y, x, w) ==
    LET idx == y * Gx.render_width + x
    IN IF InsideTest(w) /\ ScalarDepthPass(S, w, Gx.depth[idx])
       THEN WritePixel(Gx, idx, DepthU16(S, w), TexturedColor(Gx, S, w))
       ELSE Gx

RECURSIVE ScalarTail(_, _, _, _, _)
ScalarTail(Gx, S, y, x, w) ==
    IF x > S.maxX THEN Gx
    ELSE ScalarTail(ScalarPixel(Gx, S, y, x, w), S, y, x + 1, WStep(S, w, 1))

RECURSIVE FastPath(_, _, _, _, _)
FastPath(Gx, S, y, x, w) ==
    IF x + 3 <= S.maxX
    THEN FastPath(SimdGroup(Gx, S, y, x, w), S, y, x + 4, WStep(S, w, 4))
    ELSE ScalarTail(Gx, S, y, x, w)

RECURSIVE TexturedPath(_, _, _, _, _)
TexturedPath(Gx, S, y, x, w) ==
    IF x > S.maxX THEN Gx
    ELSE TexturedPath(TexturedPixel(Gx, S, y, x, w), S, y, x + 1, WStep(S, w, 1))

RowStep(S, w) == <<w[1] + S.B12 * SFX, w[2] + S.B20 * SFX, w[3] + S.B01 * SFX>>

RECURSIVE ScanRows(_, _, _, _)
ScanRows(Gx, S, y, wrow) ==
    IF y > S.maxY THEN Gx
    ELSE ScanRows(IF ~S.useTexture THEN FastPath(Gx, S, y, S.minX, wrow)
                  ELSE TexturedPath(Gx, S, y, S.minX, wrow),
                  S, y + 1, RowStep(S, wrow))

\* the edge values at the centre of pixel (x, y)
EdgeAt(S, x, y) ==
    LET px == x * SFX + FX
        py == y * SFX + FX
    IN <<S.A12 * (px - S.x1) + S.B12 * (py - S.y1),
         S.A20 * (px - S.x2) + S.B20 * (py - S.y2),
         S.A01 * (px - S.x0) + S.B01 * (py - S.y0)>>

Rejected(S) ==
    \/ S.minX > S.maxX
    \/ S.minY > S.maxY
    \/ Abs(S.area) * AREA_EPS_INV < SFX * SFX

rasterize_triangle(Gx, v0, v1, v2) ==
    LET S == TriSetup(Gx, v0, v1, v2)
    IN IF Rejected(S) THEN Gx
       ELSE ScanRows(Gx, S, S.minY, EdgeAt(S, S.minX, S.minY))

(***************************************************************************)
(* The vertex cache and the triangle front-end of render_triangles.        *)
(***************************************************************************)
\* a lookup that processes the vertex and leaves its flag unset
get_processed_vertex_unmarked(Gx, idx) ==
    IF Gx.vertex_processed[idx] = 0
    THEN [Gx EXCEPT !.vertex_cache[idx] = process_vertex(Gx, idx),
                    !.process_calls[idx] = @ + 1]
    ELSE Gx

get_processed_vertex(Gx, idx) ==
    IF Gx.vertex_processed[idx] = 0
    THEN [Gx EXCEPT !.vertex_cache[idx] = process_vertex(Gx, idx),
                    !.vertex_processed[idx] = 1,
                    !.process_calls[idx] = @ + 1]
    ELSE Gx

\* a frame start that leaves the flags of the earlier frame in place
KeepProcessedFlags(Gx) == Gx

\* __builtin_memset(g_vertex_processed, 0, g_vertex_count)
ClearProcessedFlags(Gx) ==
    [Gx EXCEPT !.vertex_processed =
        [i \in DOMAIN Gx.vertex_processed |->
            IF i < Gx.vertex_count THEN 0 ELSE Gx.vertex_processed[i]]]

NumTriangles(Gx) == TruncDiv(Gx.index_count, 3)

\* near/far reject: any vertex with NDC z outside [-1, 1]
ClipReject(v0, v1, v2) ==
    \/ v0.depth < -FX \/ v1.depth < -FX \/ v2.depth < -FX
    \/ v0.depth > FX \/ v1.depth > FX \/ v2.depth > FX

IsBackfacing(v0, v1, v2) ==
    LET edge1 == VSub(v1.screen, v0.screen)
        edge2 == VSub(v2.screen, v0.screen)
    IN edge1.x * edge2.y - edge1.y * edge2.x >= 0

\* smooth shading: per-vertex normals, flipped for a back face
SmoothLit(Gx, v, backfacing) ==
    LET n == IF backfacing THEN VNeg(v.normal) ELSE v.normal
    IN [v EXCEPT !.normal = n, !.light = LightOf(Gx, n)]

\* flat shading: one light value from the face normal
FaceLight(Gx, v0, v1, v2, backfacing) ==
    LET worldEdge1 == VSub(v1.world, v0.world)
        worldEdge2 == VSub(v2.world, v0.world)
        n0 == VNormalize(VCross(worldEdge1, worldEdge2))
        faceNormal == IF backfacing THEN VNeg(n0) ELSE n0
    IN LightOf(Gx, faceNormal)

\* the three vertices as handed to rasterize_triangle (the per-triangle copies)
LitVertices(Gx, v0, v1, v2) ==
    LET bf == IsBackfacing(v0, v1, v2)
    IN IF Gx.enable_lighting = 0 THEN <<v0, v1, v2>>
       ELSE IF Gx.enable_smooth_shading # 0
       THEN <<SmoothLit(Gx, v0, bf), SmoothLit(Gx, v1, bf), SmoothLit(Gx, v2, bf)>>
       ELSE LET faceLight == FaceLight(Gx, v0, v1, v2, bf)
            IN <<[v0 EXCEPT !.light = faceLight],
                 [v1 EXCEPT !.light = faceLight],
                 [v2 EXCEPT !.light = faceLight]>>

\* a front-end that rejects at the near plane only
DispatchedNearOnly(Gx, v0, v1, v2) ==
    ~(v0.depth < -FX \/ v1.depth < -FX \/ v2.depth < -FX)

\* a front-end that skips back faces when enable_backface_culling is set
DispatchedUnlessCulled(Gx, v0, v1, v2) ==
    /\ ~ClipReject(v0, v1, v2)
    /\ ~(Gx.enable_backface_culling # 0 /\ IsBackfacing(v0, v1, v2))

\* whether the front-end hands the triangle to rasterize_triangle
Dispatched(Gx, v0, v1, v2) == ~ClipReject(v0, v1, v2)

\* the state after the three cache lookups of iteration t
AfterLookups(Gx, t) ==
    get_processed_vertex(
        get_processed_vertex(
            get_processed_vertex(Gx, Gx.indices[t * 3]),
            Gx.indices[t * 3 + 1]),
        Gx.indices[t * 3 + 2])

\* the lighting block and the call of rasterize_triangle
ShadeAndRasterize(G3, lit) == rasterize_triangle(G3, lit[1], lit[2], lit[3])

\* the body of the loop after the three lookups
FrontEnd(G3, v0, v1, v2) ==
    IF Dispatched(G3, v0, v1, v2)
    THEN ShadeAndRasterize(G3, LitVertices(G3, v0, v1, v2))
    ELSE G3

\* a loop body that lights the cache entries themselves
TriangleInPlace(G3, t) ==
    LET i0 == G3.indices[t * 3]
        i1 == G3.indices[t * 3 + 1]
        i2 == G3.indices[t * 3 + 2]
        v0 == G3.vertex_cache[i0]
        v1 == G3.vertex_cache[i1]
        v2 == G3.vertex_cache[i2]
        lit == LitVertices(G3, v0, v1, v2)
    IN IF Dispatched(G3, v0, v1, v2)
       THEN ShadeAndRasterize([G3 EXCEPT !.vertex_cache[i0] = lit[1],
                                         !.vertex_cache[i1] = lit[2],
                                         !.vertex_cache[i2] = lit[3]], lit)
       ELSE G3

\* ProcessedVertex v0 = get_processed_vertex(i0); ...: the loop body works on
\* copies of the three cache entries
TriangleCopies(G3, t) ==
    FrontEnd(G3, G3.vertex_cache[G3.indices[t * 3]],
             G3.vertex_cache[G3.indices[t * 3 + 1]],
             G3.vertex_cache[G3.indices[t * 3 + 2]])

\* one iteration of the loop of render_triangles
\* the loop taking the triangles from the end of the index list
TriangleIterReversed(Gx, t) ==
    TriangleCopies(AfterLookups(Gx, NumTriangles(Gx) - 1 - t), NumTriangles(Gx) - 1 - t)

TriangleIter(Gx, t) == TriangleCopies(AfterLookups(Gx, t), t)

RECURSIVE RenderLoop(_, _)
RenderLoop(Gx, t) ==
    IF t >= NumTriangles(Gx) THEN Gx ELSE RenderLoop(TriangleIter(Gx, t), t + 1)

\* render_triangles as a function of the globals
RenderTriangles(Gx) == RenderLoop(ClearProcessedFlags(Gx), 0)

(***************************************************************************)
(* Resolution and clear.                                                   *)
(***************************************************************************)
\* a clamp whose lower limit is 0 instead of 1
ClampResolutionFloorZero(v, max) ==
    LET hi == IF v > max THEN max ELSE v
    IN IF hi < 0 THEN 0 ELSE hi

ClampResolution(v, max) ==
    LET hi == IF v > max THEN max ELSE v
    IN IF hi < 1 THEN 1 ELSE hi

ClampWidth(width) == ClampResolution(width, MAX_RENDER_WIDTH)
ClampHeight(height) == ClampResolution(height, MAX_RENDER_HEIGHT)

get_render_width == g_render_width
get_render_height == g_render_height
get_pixel_count == g_pixel_count

\* __builtin_memset(g_depth, 0xFF, nbytes): sample i is bytes 2i and 2i+1
MemsetDepth(depth, nbytes) ==
    [i \in DOMAIN depth |-> IF 2 * i + 2 <= nbytes THEN CLEAR_DEPTH ELSE depth[i]]

\* wasm_v128_store(pixels + i, simd_color): four pixel words
Store4(pixels, i, color) ==
    [k \in DOMAIN pixels |-> IF k >= i /\ k < i + 4 THEN color ELSE pixels[k]]

Store16(pixels, i, color) ==
    Store4(Store4(Store4(Store4(pixels, i, color), i + 4, color), i + 8, color),
           i + 12, color)

RECURSIVE ClearTail(_, _, _, _)
ClearTail(pixels, i, pixel_count, color) ==
    IF i < pixel_count
    THEN ClearTail([pixels EXCEPT ![i] = color], i + 1, pixel_count, color)
    ELSE pixels

\* a SIMD loop that runs while i < pixel_count and so stores past the extent
RECURSIVE ClearSimdOvershoot(_, _, _, _)
ClearSimdOvershoot(pixels, i, pixel_count, color) ==
    IF i < pixel_count
    THEN ClearSimdOvershoot(Store16(pixels, i, color), i + SIMD_CLEAR_STRIDE,
                            pixel_count, color)
    ELSE pixels

RECURSIVE ClearSimd(_, _, _, _)
ClearSimd(pixels, i, pixel_count, color) ==
    IF i < pixel_count - (SIMD_CLEAR_STRIDE - 1)
    THEN ClearSimd(Store16(pixels, i, color), i + SIMD_CLEAR_STRIDE, pixel_count, color)
    ELSE ClearTail(pixels, i, pixel_count, color)

\* the background word 0x00BBGGRR
ClearColor(r, g, b) == [r |-> r, g |-> g, b |-> b, a |-> 0]

ClearPixels(pixels, pixel_count, color) == ClearSimd(pixels, 0, pixel_count, color)

ClearDepthBuffer(depth, pixel_count) == MemsetDepth(depth, pixel_count * 2)

(***************************************************************************)
(* The state after construction (static initialisers; buffers are zero).   *)
(***************************************************************************)
\* the modelled prefix of g_vertices, g_vertex_cache and g_vertex_processed
NV == 10
\* the largest texture side the host uploads
MaxTexDim == 2
\* triangles in the index list of a scene
MaxTris == 2
\* frame-producing calls (render_triangles, bake_material) in one run
MaxFrames == 2
\* the modelled prefix of g_indices in the threaded specification, in triangles
ParTris == 65
\* the modelled prefix of g_bake_output, in bytes
BakeLen == 56
\* the modelled prefix of g_bake_program, in bytes (zero beyond it)
ProgLen == 48

TexLen == MaxTexDim * MaxTexDim * 4

ZeroPixel == [r |-> 0, g |-> 0, b |-> 0, a |-> 0]
ZeroVec == Vec3(0, 0, 0)
ZeroVertex ==
    [x |-> 0, y |-> 0, z |-> 0, nx |-> 0, ny |-> 0, nz |-> 0,
     u |-> 0, v |-> 0, r |-> 0, g |-> 0, b |-> 0, a |-> 0]
ZeroProcessed ==
    [screen |-> ZeroVec, world |-> ZeroVec, normal |-> ZeroVec, depth |-> 0,
     u |-> 0, v |-> 0, r |-> 0, g |-> 0, b |-> 0, affine |-> 0, light |-> 0]
ZeroMatrix == [i \in 0..15 |-> 0]
IdentityMatrix == [i \in 0..15 |-> IF i % 5 = 0 THEN FX ELSE 0]
NoCall == [op |-> "none", a |-> 0, b |-> 0, c |-> 0]
NoProcessCalls == [i \in 0..(NV - 1) |-> 0]
NoWork == [start_triangle |-> 0, end_triangle |-> 0]
\* a worker: not started ("none"), in its loop ("run") or returned ("done");
\* t is its loop variable, u the next group of pixels of triangle t to load
\* and pend the stores of the loaded group that are still to be done
NoWorker == [st |-> "none", t |-> 0, u |-> 1, pend |-> <<>>]
NoneHanded == [t \in 0..(ParTris - 1) |-> 0]
Call(op, a, b, c) == [op |-> op, a |-> a, b |-> b, c |-> c]

InitRes ==
    /\ g_render_width = 640
    /\ g_render_height = 480
    /\ g_pixel_count = 640 * 480

InitBuf ==
    /\ g_pixels = [i \in 0..(BufLen - 1) |-> ZeroPixel]
    /\ g_depth = [i \in 0..(BufLen - 1) |-> 0]

InitMesh ==
    /\ g_vertices = [i \in 0..(NV - 1) |-> ZeroVertex]
    /\ g_indices = [i \in 0..(3 * MaxTris - 1) |-> 0]
    /\ g_vertex_count = 0
    /\ g_index_count = 0

InitTex ==
    /\ g_textures = [s \in 0..(MAX_TEXTURES - 1) |-> [o \in 0..(TexLen - 1) |-> 0]]
    /\ g_texture_sizes = [i \in 0..(2 * MAX_TEXTURES - 1) |-> 0]

InitXform ==
    /\ g_mvp_matrix = ZeroMatrix
    /\ g_model_matrix = ZeroMatrix
    /\ g_light_dir = [i \in 0..3 |-> 0]
    /\ g_light_color = [i \in 0..3 |-> 0]

\* g_ambient_light = 0.2f, rounded toward zero to the grid
InitFlags ==
    /\ g_ambient_light = TruncDiv(FX, 5)
    /\ g_enable_lighting = 1
    /\ g_enable_dithering = 1
    /\ g_enable_texturing = 1
    /\ g_enable_backface_culling = 1
    /\ g_enable_vertex_snapping = 1
    /\ g_enable_smooth_shading = 0
    /\ g_snap_resolution_x = 320
    /\ g_snap_resolution_y = 240

InitCache ==
    /\ g_vertex_cache = [i \in 0..(NV - 1) |-> ZeroProcessed]
    /\ g_vertex_processed = [i \in 0..(NV - 1) |-> 0]
    /\ process_calls = NoProcessCalls

\* g_thread_count = 4; no call of render_triangles_parallel is in progress
InitThreads ==
    /\ g_thread_count = 4
    /\ workData = [i \in 0..(MAX_THREADS - 1) |-> NoWork]
    /\ threadCreated = [i \in 0..(MAX_THREADS - 1) |-> FALSE]
    /\ workers = [i \in 0..(MAX_THREADS - 1) |-> NoWorker]
    /\ handed = NoneHanded

InitBakeVars ==
    /\ g_bake_output = [i \in 0..(BakeLen - 1) |-> 0]
    /\ g_bake_program = [i \in 0..(ProgLen - 1) |-> 0]
    /\ g_bake_width = 256
    /\ g_bake_height = 256
    /\ g_bake_source_texture = -1

InitCtl ==
    /\ pc = "idle"
    /\ cur_t = 0
    /\ call = NoCall
    /\ frames = 0
    /\ edits = 0
    /\ since_clear = -1

Init ==
    /\ InitRes /\ InitBuf /\ InitMesh /\ InitTex /\ g_current_texture = -1
    /\ InitXform /\ InitFlags /\ InitCache /\ InitThreads /\ InitBakeVars /\ InitCtl

(***************************************************************************)
(* The exported API.  A call is one atomic action; render_triangles is one *)
(* action per loop iteration (pc = "render"), with no other call between.  *)
(***************************************************************************)
set_render_resolution(width, height) ==
    /\ pc = "idle"
    /\ g_render_width' = ClampWidth(width)
    /\ g_render_height' = ClampHeight(height)
    /\ g_pixel_count' = ClampWidth(width) * ClampHeight(height)
    /\ call' = Call("set_render_resolution", width, height, 0)
    /\ UNCHANGED <<bufVars, meshVars, bakeVars, texVars, g_current_texture, xformVars,
                   flagVars, cacheVars, ctlVars, threadVars, frames, since_clear>>

clear(r, g, b) ==
    /\ pc = "idle"
    /\ g_pixel_count <= BufLen
    /\ g_depth' = ClearDepthBuffer(g_depth, g_pixel_count)
    /\ g_pixels' = ClearPixels(g_pixels, g_pixel_count, ClearColor(r, g, b))
    /\ call' = Call("clear", r, g, b)
    /\ since_clear' = 0
    /\ UNCHANGED <<resVars, meshVars, bakeVars, texVars, g_current_texture, xformVars,
                   flagVars, cacheVars, ctlVars, threadVars, frames>>

set_texture_size(slot, width, height) ==
    /\ pc = "idle"
    /\ g_texture_sizes' =
         IF slot < 0 \/ slot >= MAX_TEXTURES THEN g_texture_sizes
         ELSE [g_texture_sizes EXCEPT ![slot * 2] = width, ![slot * 2 + 1] = height]
    /\ call' = Call("set_texture_size", slot, width, height)
    /\ UNCHANGED <<resVars, bufVars, meshVars, bakeVars, g_textures, g_current_texture,
                   xformVars, flagVars, cacheVars, ctlVars, threadVars, frames, since_clear>>

\* a setter that ignores a slot outside [-1, MAX_TEXTURES)
set_current_texture_checked(slot) ==
    /\ pc = "idle"
    /\ g_current_texture' =
         IF slot < -1 \/ slot >= MAX_TEXTURES THEN g_current_texture ELSE slot
    /\ call' = Call("set_current_texture", slot, 0, 0)
    /\ UNCHANGED <<resVars, bufVars, meshVars, bakeVars, texVars, xformVars, flagVars,
                   cacheVars, ctlVars, threadVars, frames, since_clear>>

set_current_texture(slot) ==
    /\ pc = "idle"
    /\ g_current_texture' = slot
    /\ call' = Call("set_current_texture", slot, 0, 0)
    /\ UNCHANGED <<resVars, bufVars, meshVars, bakeVars, texVars, xformVars, flagVars,
                   cacheVars, ctlVars, threadVars, frames, since_clear>>

SetFlag(name, enable) ==
    /\ pc = "idle"
    /\ call' = Call(name, enable, 0, 0)
    /\ UNCHANGED <<resVars, bufVars, meshVars, bakeVars, texVars, g_current_texture,
                   xformVars, g_ambient_light, g_enable_vertex_snapping,
                   g_snap_resolution_x, g_snap_resolution_y, cacheVars, ctlVars, threadVars,
                   frames, since_clear>>

set_enable_lighting(enable) ==
    /\ SetFlag("set_enable_lighting", enable)
    /\ g_enable_lighting' = enable
    /\ UNCHANGED <<g_enable_dithering, g_enable_texturing,
                   g_enable_backface_culling, g_enable_smooth_shading>>

set_enable_dithering(enable) ==
    /\ SetFlag("set_enable_dithering", enable)
    /\ g_enable_dithering' = enable
    /\ UNCHANGED <<g_enable_lighting, g_enable_texturing,
                   g_enable_backface_culling, g_enable_smooth_shading>>

set_enable_texturing(enable) ==
    /\ SetFlag("set_enable_texturing", enable)
    /\ g_enable_texturing' = enable
    /\ UNCHANGED <<g_enable_lighting, g_enable_dithering,
                   g_enable_backface_culling, g_enable_smooth_shading>>

set_enable_backface_culling(enable) ==
    /\ SetFlag("set_enable_backface_culling", enable)
    /\ g_enable_backface_culling' = enable
    /\ UNCHANGED <<g_enable_lighting, g_enable_dithering, g_enable_texturing,
                   g_enable_smooth_shading>>

set_enable_smooth_shading(enable) ==
    /\ SetFlag("set_enable_smooth_shading", enable)
    /\ g_enable_smooth_shading' = enable
    /\ UNCHANGED <<g_enable_lighting, g_enable_dithering, g_enable_texturing,
                   g_enable_backface_culling>>

\* the globals a drawing operation leaves behind
StoreGlobals(after) ==
    /\ g_pixels' = after.pixels
    /\ g_depth' = after.depth
    /\ g_vertex_cache' = after.vertex_cache
    /\ g_vertex_processed' = after.vertex_processed
    /\ process_calls' = after.process_calls

\* render_triangles up to the loop: numTriangles and the memset of the flags
render_triangles_begin ==
    /\ pc = "idle"
    /\ frames < MaxFrames
    /\ g_vertex_processed' = ClearProcessedFlags(G).vertex_processed
    /\ process_calls' = NoProcessCalls
    /\ cur_t' = 0
    /\ pc' = IF 0 < NumTriangles(G) THEN "render" ELSE "idle"
    /\ call' = Call("render_triangles", 0, 0, 0)
    /\ frames' = frames + 1
    /\ since_clear' = IF since_clear < 0 THEN since_clear ELSE since_clear + 1
    /\ UNCHANGED <<resVars, bufVars, meshVars, bakeVars, texVars, g_current_texture,
                   xformVars, flagVars, g_vertex_cache, threadVars, edits>>

\* one iteration of the loop of render_triangles (triangle cur_t)
render_triangles_iter ==
    /\ pc = "render"
    /\ StoreGlobals(TriangleIter(G, cur_t))
    /\ cur_t' = cur_t + 1
    /\ pc' = IF cur_t + 1 < NumTriangles(G) THEN "render" ELSE "idle"
    /\ UNCHANGED <<resVars, meshVars, bakeVars, texVars, g_current_texture, xformVars,
                   flagVars, threadVars, call, ghostVars>>

(***************************************************************************)
(* The API specification: the host calls the resolution and texture        *)
(* setters with arbitrary 32-bit arguments.                                *)
(***************************************************************************)
Int32Sample ==
    {INT32_MIN, 0, 1, RW, MAX_RENDER_HEIGHT + 1, MAX_RENDER_WIDTH + 1, INT32_MAX}
SlotSample == {INT32_MIN, -2, -1, 0, MAX_TEXTURES - 1, MAX_TEXTURES, INT32_MAX}
SizedSlotSample == {-1, 0, MAX_TEXTURES}
TexSizeSample == {0, MaxTexDim}

Next ==
    \/ \E width \in Int32Sample, height \in Int32Sample :
          set_render_resolution(width, height) /\ UNCHANGED edits
    \/ \E slot \in SlotSample : set_current_texture(slot) /\ UNCHANGED edits
    \/ \E slot \in SizedSlotSample, width \in TexSizeSample, height \in TexSizeSample :
          set_texture_size(slot, width, height) /\ UNCHANGED edits
    \/ \E e \in {0, 1} : set_enable_dithering(e) /\ UNCHANGED edits
    \/ \E e \in {0, 1} : set_enable_backface_culling(e) /\ UNCHANGED edits

Spec == Init /\ [][Next]_vars

\* C8: after any sequence of set_render_resolution calls with arbitrary
\* 32-bit arguments, 1 <= width <= 1920, 1 <= height <= 1200, the pixel
\* count is width * height and at most MAX_PIXEL_COUNT, and the getters
\* return exactly these values.
C8_ResolutionClamped ==
    /\ 1 <= g_render_width /\ g_render_width <= MAX_RENDER_WIDTH
    /\ 1 <= g_render_height /\ g_render_height <= MAX_RENDER_HEIGHT
    /\ g_pixel_count = g_render_width * g_render_height
    /\ g_pixel_count <= MAX_PIXEL_COUNT
    /\ get_render_width = g_render_width
    /\ get_render_height = g_render_height
    /\ get_pixel_count = g_render_width * g_render_height

C8_Witness ==
    /\ call = Call("set_render_resolution", INT32_MIN, INT32_MAX, 0)
    /\ g_render_width = 1
    /\ g_render_height = MAX_RENDER_HEIGHT

\* C9 (as the code has it): set_current_texture stores its argument
\* unvalidated, so right after set_current_texture(slot) the current slot
\* is slot, whatever 32-bit integer that is; no other call changes it.
C9_SlotIsLastArgument ==
    [][/\ call'.op = "set_current_texture" => g_current_texture' = call'.a
       /\ call'.op # "set_current_texture" => g_current_texture' = g_current_texture]_vars

C9_Witness ==
    /\ call.op = "set_texture_size"
    /\ g_current_texture = MAX_TEXTURES

\* C9 as stated: the current-texture slot is -1 or in [0, 15]
C9_SlotValid == g_current_texture = -1 \/ g_current_texture \in 0..(MAX_TEXTURES - 1)

(***************************************************************************)
(* The clear specification: resolutions small enough for the modelled      *)
(* buffer prefix, below, at and above the 16-pixel stride of the loop.     *)
(***************************************************************************)
ClearWidths == {3, SIMD_CLEAR_STRIDE, SIMD_CLEAR_STRIDE + 1}
ClearHeights == {1, 2}
ClearColors == {<<255, 128, 7>>, <<1, 2, 3>>}

NextClear ==
    \/ \E width \in ClearWidths, height \in ClearHeights :
          set_render_resolution(width, height) /\ UNCHANGED edits
    \/ \E c \in ClearColors : clear(c[1], c[2], c[3]) /\ UNCHANGED edits

SpecClear == Init /\ [][NextClear]_vars

\* C2: a clear(r, g, b) at the active resolution leaves every pixel word of
\* index < width * height equal to 0x00BBGGRR (alpha 0) and every depth
\* sample of index < width * height equal to 0xFFFF, and leaves the pixel
\* words and depth samples of index >= width * height as they were.
C2_ClearPostcondition ==
    [][call'.op = "clear" =>
         \A i \in 0..(BufLen - 1) :
            IF i < g_render_width * g_render_height
            THEN /\ g_pixels'[i] = [r |-> call'.a, g |-> call'.b, b |-> call'.c, a |-> 0]
                 /\ g_depth'[i] = CLEAR_DEPTH
            ELSE /\ g_pixels'[i] = g_pixels[i]
                 /\ g_depth'[i] = g_depth[i]]_vars

C2_Witness ==
    /\ call.op = "clear"
    /\ g_pixel_count = SIMD_CLEAR_STRIDE + 1
    /\ g_pixels[SIMD_CLEAR_STRIDE] = ClearColor(call.a, call.b, call.c)
    /\ g_pixels[SIMD_CLEAR_STRIDE + 1] \notin {ZeroPixel, g_pixels[SIMD_CLEAR_STRIDE]}
    /\ g_depth[SIMD_CLEAR_STRIDE] = CLEAR_DEPTH
    /\ g_depth[BufLen - 1] = 0

(***************************************************************************)
(* The rendering specification.  The host has set the resolution RW x RH,  *)
(* uploaded a mesh, two matrices, a light and the textures (through the    *)
(* buffer pointers), and then clears, renders and toggles settings.        *)
(***************************************************************************)
\* host setter calls in one run of the rendering specification
MaxEdits == 1

\* the vertex pool: 0,1,2 a flat triangle at z = 0; 3,4,5 a slanted one that
\* reaches past the screen edges and crosses the first in depth; 6 is vertex
\* 2 moved behind the far plane, 7 is vertex 3 moved before the near plane,
\* 8 is vertex 2 with the texture coordinates of vertex 0, 9 is vertex 0 in
\* the colour of the slanted triangle
SceneVertex(i) ==
    LET k == i % 10
        xy == CASE k \in {0, 9} -> <<-FX, -FX>> [] k = 1 -> <<FX, -FX>>
                [] k \in {2, 6, 8} -> <<-FX, FX>> [] k \in {3, 7} -> <<-FX - 1, -FX>>
                [] k = 4 -> <<FX + 1, -FX>> [] OTHER -> <<0, FX + 1>>
        z == CASE k \in {0, 1, 2, 8, 9} -> 0 [] k \in {3, 4} -> 1 [] k = 6 -> FX + 1
               [] k = 7 -> -FX - 1 [] OTHER -> -FX
        n == IF k \in {2, 6, 8} THEN <<0, FX, 0>> ELSE <<0, 0, FX>>
        uv == CASE k \in {0, 3, 7, 8, 9} -> <<0, 0>> [] k \in {1, 4} -> <<FX - 1, 0>>
                [] OTHER -> <<0, FX - 1>>
        rgb == IF k < 3 THEN <<100, 50, 200>> ELSE <<77, 255, 30>>
    IN [x |-> xy[1], y |-> xy[2], z |-> z, nx |-> n[1], ny |-> n[2], nz |-> n[3],
        u |-> uv[1], v |-> uv[2], r |-> rgb[1], g |-> rgb[2], b |-> rgb[3], a |-> 0]

\* index lists: front face, crossing face, the first face with its winding
\* reversed, a face sharing vertices with both, a degenerate face, and the
\* two faces with a vertex outside the depth range, a face along a texture
\* edge, and two faces in one plane in both orders
BaseLists ==
    {<<0, 1, 2, 3, 4, 5, 0, 2, 1>>,
     <<3, 4, 5, 0, 2, 1, 0, 1, 5>>,
     <<0, 0, 1, 0, 1, 5, 3, 4, 5>>,
     <<0, 1, 6, 3, 4, 5, 0, 1, 2>>,
     <<7, 4, 5, 0, 1, 2, 3, 4, 5>>,
     <<3, 4, 5, 0, 1, 8, 0, 1, 2>>,
     <<9, 1, 2, 0, 1, 2, 3, 4, 5>>,
     <<0, 1, 2, 9, 1, 2, 3, 4, 5>>}

SceneCatalogue ==
    {SubSeq(l, 1, 3 * k) : l \in BaseLists, k \in 1..Min2(MaxTris, 3)}

TexByte(slot, o) == (o * 53 + slot * 17 + 40) % 256

SceneTexSize(i) ==
    CASE i \in {0, 1, 3, 4} -> MaxTexDim
      [] i = 5 -> -1
      [] OTHER -> 0

SceneClearColor == <<8, 16, 24>>

InitRender ==
    /\ g_render_width = RW
    /\ g_render_height = RH
    /\ g_pixel_count = RW * RH
    /\ InitBuf
    /\ g_vertices = [i \in 0..(NV - 1) |-> SceneVertex(i)]
    /\ g_vertex_count = NV
    /\ \E l \in SceneCatalogue :
          /\ g_indices = [i \in 0..(3 * MaxTris - 1) |-> IF i < Len(l) THEN l[i + 1] ELSE 0]
          /\ g_index_count = Len(l)
    /\ g_textures = [s \in 0..(MAX_TEXTURES - 1) |-> [o \in 0..(TexLen - 1) |-> TexByte(s, o)]]
    /\ g_texture_sizes = [i \in 0..(2 * MAX_TEXTURES - 1) |-> SceneTexSize(i)]
    /\ g_current_texture = -1
    /\ g_mvp_matrix = IdentityMatrix
    /\ g_model_matrix = IdentityMatrix
    /\ g_light_dir = [i \in 0..3 |-> IF i = 2 THEN -FX ELSE 0]
    /\ g_light_color = [i \in 0..3 |-> FX]
    /\ InitFlags /\ InitCache /\ InitThreads /\ InitBakeVars /\ InitCtl

RenderSlots == {-1, 0, 1, MAX_TEXTURES}

\* a setter call changes the setting (a call that repeats the current value
\* changes nothing that rendering reads)
NextRender ==
    \/ /\ edits < MaxEdits
       /\ edits' = edits + 1
       /\ \/ \E slot \in RenderSlots \ {g_current_texture} : set_current_texture(slot)
          \/ set_enable_texturing(1 - g_enable_texturing)
          \/ set_enable_lighting(1 - g_enable_lighting)
          \/ set_enable_smooth_shading(1 - g_enable_smooth_shading)
    \/ clear(SceneClearColor[1], SceneClearColor[2], SceneClearColor[3]) /\ UNCHANGED edits
    \/ render_triangles_begin
    \/ render_triangles_iter

SpecRender == InitRender /\ [][NextRender]_vars

(***************************************************************************)
(* What one triangle does to one pixel, in closed form: the setup of       *)
(* triangle t from freshly processed vertices, and the edge values at the  *)
(* pixel centre (the loops reach them by repeated addition).               *)
(***************************************************************************)
Buffers(Gx) == <<Gx.pixels, Gx.depth>>

TriInfo(Gx, t) ==
    LET v0 == process_vertex(Gx, Gx.indices[t * 3])
        v1 == process_vertex(Gx, Gx.indices[t * 3 + 1])
        v2 == process_vertex(Gx, Gx.indices[t * 3 + 2])
        lit == LitVertices(Gx, v0, v1, v2)
    IN [disp |-> Dispatched(Gx, v0, v1, v2),
        back |-> IsBackfacing(v0, v1, v2),
        S |-> TriSetup(Gx, lit[1], lit[2], lit[3])]

Covers(info, x, y) ==
    /\ info.disp
    /\ ~Rejected(info.S)
    /\ x >= info.S.minX /\ x <= info.S.maxX
    /\ y >= info.S.minY /\ y <= info.S.maxY
    /\ InsideTest(EdgeAt(info.S, x, y))

DepthAt(info, x, y) == DepthU16(info.S, EdgeAt(info.S, x, y))

ColourAt(Gx, info, x, y) ==
    IF info.S.useTexture THEN TexturedColor(Gx, info.S, EdgeAt(info.S, x, y))
    ELSE FlatColor(info.S, EdgeAt(info.S, x, y))

Columns == 0..(g_render_width - 1)
Rows == 0..(g_render_height - 1)
Triangles == 0..(NumTriangles(G) - 1)

\* a frame that started from a clear has just ended
FrameDoneAfterClear ==
    /\ pc = "idle"
    /\ call.op = "render_triangles"
    /\ since_clear = 1

PoisonedCache(Gx) ==
    [Gx EXCEPT !.vertex_cache = [i \in DOMAIN Gx.vertex_cache |-> ZeroProcessed],
               !.vertex_processed = [i \in DOMAIN Gx.vertex_processed |-> 1]]

\* C4: the buffers that render_triangles leaves are a function of the
\* globals other than the vertex cache: started with any cache contents and
\* processed flags (those an earlier frame left, or others) it ends with
\* the same pixel and depth buffers.
C4_CacheIndependent ==
    pc = "idle" =>
        Buffers(RenderTriangles(G)) = Buffers(RenderTriangles(PoisonedCache(G)))

\* a second frame is about to start over the entries of the first, which
\* are stale: a setting that process_vertex reads has changed since
C4_Witness ==
    /\ pc = "idle"
    /\ frames >= 1
    /\ since_clear = 0
    /\ \E i \in 0..(NV - 1) :
          /\ g_vertex_processed[i] = 1
          /\ g_vertex_cache[i] # process_vertex(G, i)
    /\ Buffers(RenderTriangles(G)) # Buffers(G)

Quantized(c) == c % 8 = 0 \/ c = 255

\* C5 as stated: with enable_dithering = 1 every channel of every pixel
\* that a frame wrote is Bayer-quantized: its low 3 bits are zero (or the
\* channel was clamped to 255).
C5_DitheredWhenEnabled ==
    (FrameDoneAfterClear /\ g_enable_dithering = 1) =>
        \A idx \in 0..(g_pixel_count - 1) :
           g_pixels[idx].a = ALPHA_GEOMETRY =>
              /\ Quantized(g_pixels[idx].r)
              /\ Quantized(g_pixels[idx].g)
              /\ Quantized(g_pixels[idx].b)

\* the slots that name no texture: outside [0, MAX_TEXTURES), or of a
\* width or height <= 0
InvalidSlots(Gx) ==
    {INT32_MIN, -1, MAX_TEXTURES}
        \cup {slot \in 0..2 : \/ Gx.texture_sizes[slot * 2] <= 0
                              \/ Gx.texture_sizes[slot * 2 + 1] <= 0}

\* C6: with enable_texturing = 1 and a current texture of -1, of a slot
\* outside [0, 15], or of a slot whose width or height is <= 0,
\* render_triangles leaves the buffers it leaves with enable_texturing = 0.
C6_InvalidSlotIsUntextured ==
    pc = "idle" =>
        LET untextured == Buffers(RenderTriangles([G EXCEPT !.enable_texturing = 0]))
        IN \A slot \in InvalidSlots(G) :
              Buffers(RenderTriangles([G EXCEPT !.enable_texturing = 1,
                                                !.current_texture = slot]))
                = untextured

\* a frame with texturing enabled and a slot that names no texture wrote
\* pixels, and a valid slot would have given other pixels
C6_Witness ==
    /\ FrameDoneAfterClear
    /\ g_enable_texturing = 1
    /\ g_current_texture \in InvalidSlots(G) \ {-1}
    /\ \E idx \in 0..(g_pixel_count - 1) : g_pixels[idx].a = ALPHA_GEOMETRY
    /\ LET cleared == [G EXCEPT !.pixels = ClearPixels(g_pixels, g_pixel_count,
                                    ClearColor(SceneClearColor[1], SceneClearColor[2],
                                               SceneClearColor[3])),
                                !.depth = ClearDepthBuffer(g_depth, g_pixel_count)]
       IN /\ Buffers(RenderTriangles(cleared)) = Buffers(G)
          /\ Buffers(RenderTriangles([cleared EXCEPT !.current_texture = 0])) # Buffers(G)

BAKE_OP_FLAT_COLOR == 0
BAKE_OP_MIX_MULTIPLY == 2
BAKE_OP_MIX_ADD == 3
BAKE_OP_MIX_LERP == 4
BAKE_OP_COLOR_RAMP == 5
BAKE_OP_ALPHA_CUTOFF == 7
BAKE_OP_END == 255
MAX_RAMP_STOPS == 16
RAMP_STOP_BYTES == 5
MAX_STACK == 8
BAKE_GROUP == 4
MAX_BAKE_SIZE == 512 * 512

\* opcodes whose cases are outside this model
OtherBakeOpcodes == {1, 6, 8}

Lanes == 1..BAKE_GROUP
Splat(c) == [i \in Lanes |-> c]
\* wasm_i32x4_shr(v, 8) of non-negative lanes
Shr8(v) == [i \in Lanes |-> v[i] \div 256]
LaneMul(a, b) == [i \in Lanes |-> a[i] * b[i]]
LaneAdd(a, b) == [i \in Lanes |-> a[i] + b[i]]
LaneMin255(a) == [i \in Lanes |-> Min2(a[i], 255)]

StackEntry(r, g, b, a) == [r |-> r, g |-> g, b |-> b, a |-> a]
EmptyStack == [k \in 0..(MAX_STACK - 1) |-> StackEntry(Splat(0), Splat(0), Splat(0), Splat(0))]

\* *pc: the program buffer is zero beyond what the host wrote
ProgByte(prog, ip) == IF ip \in DOMAIN prog THEN prog[ip] ELSE 0

Machine(ip, sp, stack, stop) == [ip |-> ip, sp |-> sp, stack |-> stack, stop |-> stop]

\* case BAKE_OP_FLAT_COLOR: a push with no bounds check; a push at
\* stackPtr = MAX_STACK stores past the four stack arrays (the machine stops
\* there, with the stack pointer the push leaves, as what follows is undefined)
FlatColorOp(prog, m) ==
    IF m.sp >= MAX_STACK THEN Machine(m.ip + 5, m.sp + 1, m.stack, "overflow")
    ELSE Machine(m.ip + 5, m.sp + 1,
                 [m.stack EXCEPT ![m.sp] =
                     StackEntry(Splat(ProgByte(prog, m.ip + 1)), Splat(ProgByte(prog, m.ip + 2)),
                                Splat(ProgByte(prog, m.ip + 3)), Splat(ProgByte(prog, m.ip + 4)))],
                 "run")

MixMultiplyOp(prog, m) ==
    IF m.sp >= 2
    THEN LET c1 == m.stack[m.sp - 2]
             c2 == m.stack[m.sp - 1]
         IN Machine(m.ip + 2, m.sp - 1,
                    [m.stack EXCEPT ![m.sp - 2] =
                        StackEntry(Shr8(LaneMul(c1.r, c2.r)), Shr8(LaneMul(c1.g, c2.g)),
                                   Shr8(LaneMul(c1.b, c2.b)), Shr8(LaneMul(c1.a, c2.a)))],
                    "run")
    ELSE Machine(m.ip + 2, m.sp, m.stack, "run")

\* the alpha of the lower entry is left as it is
MixAddOp(prog, m) ==
    IF m.sp >= 2
    THEN LET c1 == m.stack[m.sp - 2]
             c2 == m.stack[m.sp - 1]
             f == Splat(ProgByte(prog, m.ip + 1))
         IN Machine(m.ip + 2, m.sp - 1,
                    [m.stack EXCEPT ![m.sp - 2] =
                        StackEntry(LaneMin255(LaneAdd(c1.r, Shr8(LaneMul(c2.r, f)))),
                                   LaneMin255(LaneAdd(c1.g, Shr8(LaneMul(c2.g, f)))),
                                   LaneMin255(LaneAdd(c1.b, Shr8(LaneMul(c2.b, f)))),
                                   c1.a)],
                    "run")
    ELSE Machine(m.ip + 2, m.sp, m.stack, "run")

MixLerpOp(prog, m) ==
    IF m.sp >= 2
    THEN LET c1 == m.stack[m.sp - 2]
             c2 == m.stack[m.sp - 1]
             f == Splat(ProgByte(prog, m.ip + 1))
             nf == Splat(255 - ProgByte(prog, m.ip + 1))
         IN Machine(m.ip + 2, m.sp - 1,
                    [m.stack EXCEPT ![m.sp - 2] =
                        StackEntry(Shr8(LaneAdd(LaneMul(c1.r, nf), LaneMul(c2.r, f))),
                                   Shr8(LaneAdd(LaneMul(c1.g, nf), LaneMul(c2.g, f))),
                                   Shr8(LaneAdd(LaneMul(c1.b, nf), LaneMul(c2.b, f))),
                                   Shr8(LaneAdd(LaneMul(c1.a, nf), LaneMul(c2.a, f))))],
                    "run")
    ELSE Machine(m.ip + 2, m.sp, m.stack, "run")

\* operand byte k of stop s of the ramp whose stops start at base
RampByte(prog, base, s, k) == ProgByte(prog, base + s * RAMP_STOP_BYTES + k)

\* a search without the break: the last pair that holds pos, not the first
FindStopsNoBreak(prog, base, stopCount, pos, s) ==
    LET found == {q \in s..(stopCount - 2) :
                     /\ pos >= RampByte(prog, base, q, 0)
                     /\ pos <= RampByte(prog, base, q + 1, 0)}
    IN IF found = {} THEN <<0, stopCount - 1>>
       ELSE LET q == CHOOSE q \in found : \A q2 \in found : q2 <= q
            IN <<q, q + 1>>

\* the search for the surrounding stops: <<lowIdx, highIdx>>
RECURSIVE FindStops(_, _, _, _, _)
FindStops(prog, base, stopCount, pos, s) ==
    IF s >= stopCount - 1 THEN <<0, stopCount - 1>>
    ELSE IF /\ pos >= RampByte(prog, base, s, 0)
            /\ pos <= RampByte(prog, base, s + 1, 0)
         THEN <<s, s + 1>>
         ELSE FindStops(prog, base, stopCount, pos, s + 1)

\* channel k (1 = r .. 4 = a) of the ramp at factor pos
RampChannel(prog, base, stopCount, pos, k) ==
    LET idx == FindStops(prog, base, stopCount, pos, 0)
        lowPos == RampByte(prog, base, idx[1], 0)
        highPos == RampByte(prog, base, idx[2], 0)
        low == RampByte(prog, base, idx[1], k)
        high == RampByte(prog, base, idx[2], k)
    IN IF pos <= lowPos THEN low
       ELSE IF pos >= highPos THEN high
       ELSE LET t == ((pos - lowPos) * 255) \div (highPos - lowPos)
            IN (low * (255 - t) + high * t) \div 256

RampLanes(prog, base, stopCount, fac, k) ==
    [i \in Lanes |-> RampChannel(prog, base, stopCount, fac[i], k)]

\* the stop count as read: at most MAX_RAMP_STOPS stops are consumed
StopCount(prog, ip) == Min2(ProgByte(prog, ip + 1), MAX_RAMP_STOPS)

\* a ramp that returns on an empty stack before it has read its stops
ColorRampEarlyOut(prog, m) ==
    LET stopCount == StopCount(prog, m.ip)
        base == m.ip + 2
        next == base + stopCount * RAMP_STOP_BYTES
    IN IF m.sp >= 1 /\ stopCount > 0
       THEN LET fac == m.stack[m.sp - 1].r
            IN Machine(next, m.sp,
                       [m.stack EXCEPT ![m.sp - 1] =
                           StackEntry(RampLanes(prog, base, stopCount, fac, 1),
                                      RampLanes(prog, base, stopCount, fac, 2),
                                      RampLanes(prog, base, stopCount, fac, 3),
                                      RampLanes(prog, base, stopCount, fac, 4))],
                       "run")
       ELSE Machine(base, m.sp, m.stack, "run")

ColorRampOp(prog, m) ==
    LET stopCount == StopCount(prog, m.ip)
        base == m.ip + 2
        next == base + stopCount * RAMP_STOP_BYTES
    IN IF m.sp >= 1 /\ stopCount > 0
       THEN LET fac == m.stack[m.sp - 1].r
            IN Machine(next, m.sp,
                       [m.stack EXCEPT ![m.sp - 1] =
                           StackEntry(RampLanes(prog, base, stopCount, fac, 1),
                                      RampLanes(prog, base, stopCount, fac, 2),
                                      RampLanes(prog, base, stopCount, fac, 3),
                                      RampLanes(prog, base, stopCount, fac, 4))],
                       "run")
       ELSE Machine(next, m.sp, m.stack, "run")

AlphaCutoffOp(prog, m) ==
    IF m.sp > 0
    THEN LET threshold == ProgByte(prog, m.ip + 1)
             top == m.stack[m.sp - 1]
         IN Machine(m.ip + 2, m.sp,
                    [m.stack EXCEPT ![m.sp - 1] =
                        StackEntry(top.r, top.g, top.b,
                                   [i \in Lanes |-> IF top.a[i] >= threshold THEN 255 ELSE 0])],
                    "run")
    ELSE Machine(m.ip + 2, m.sp, m.stack, "run")

\* one turn of while (!done): m.ip is at the opcode
BakeOp(prog, m) ==
    LET op == ProgByte(prog, m.ip)
    IN CASE op = BAKE_OP_FLAT_COLOR -> FlatColorOp(prog, m)
         [] op = BAKE_OP_MIX_MULTIPLY -> MixMultiplyOp(prog, m)
         [] op = BAKE_OP_MIX_ADD -> MixAddOp(prog, m)
         [] op = BAKE_OP_MIX_LERP -> MixLerpOp(prog, m)
         [] op = BAKE_OP_COLOR_RAMP -> ColorRampOp(prog, m)
         [] op = BAKE_OP_ALPHA_CUTOFF -> AlphaCutoffOp(prog, m)
         [] op \in OtherBakeOpcodes -> Machine(m.ip, m.sp, m.stack, "other")
         [] OTHER -> Machine(m.ip + 1, m.sp, m.stack, "done")

RECURSIVE RunProgram(_, _)
RunProgram(prog, m) ==
    IF m.stop # "run" THEN m ELSE RunProgram(prog, BakeOp(prog, m))

MAGENTA == StackEntry(Splat(255), Splat(0), Splat(255), Splat(255))

\* an output that takes stack slot 0 without looking at the stack pointer
GroupOutputUnchecked(prog) == RunProgram(prog, Machine(0, 0, EmptyStack, "run")).stack[0]

\* an output that takes the entry below the stack pointer
GroupOutputTop(prog) ==
    LET m == RunProgram(prog, Machine(0, 0, EmptyStack, "run"))
    IN IF m.sp > 0 THEN m.stack[m.sp - 1] ELSE MAGENTA

\* out_r, out_g, out_b, out_a of one group
GroupOutput(prog) ==
    LET m == RunProgram(prog, Machine(0, 0, EmptyStack, "run"))
    IN IF m.sp > 0 THEN m.stack[0] ELSE MAGENTA

\* a tail that always stores four pixels
PixelCountFull(x, width) == BAKE_GROUP

\* the pixels of the group at x that lie inside the row
PixelCount(x, width) == IF x + BAKE_GROUP <= width THEN BAKE_GROUP ELSE width - x

RECURSIVE WriteGroup(_, _, _, _, _)
WriteGroup(out, col, outIdx0, i, pixelCount) ==
    IF i >= pixelCount THEN out
    ELSE LET outIdx == outIdx0 + i * 4
         IN WriteGroup([out EXCEPT ![outIdx] = col.r[i + 1] % 256,
                                   ![outIdx + 1] = col.g[i + 1] % 256,
                                   ![outIdx + 2] = col.b[i + 1] % 256,
                                   ![outIdx + 3] = col.a[i + 1] % 256],
                       col, outIdx0, i + 1, pixelCount)

RECURSIVE BakeRow(_, _, _, _, _)
BakeRow(out, prog, width, y, x) ==
    IF x >= width THEN out
    ELSE BakeRow(WriteGroup(out, GroupOutput(prog), (y * width + x) * 4, 0,
                            PixelCount(x, width)),
                 prog, width, y, x + BAKE_GROUP)

RECURSIVE BakeRows(_, _, _, _, _)
BakeRows(out, prog, width, height, y) ==
    IF y >= height THEN out
    ELSE BakeRows(BakeRow(out, prog, width, y, 0), prog, width, height, y + 1)

\* how the program of the buffer ends for a group: "done", "overflow", "other"
ProgramStop(prog) == RunProgram(prog, Machine(0, 0, EmptyStack, "run")).stop

set_bake_params(width, height, sourceTexture) ==
    /\ pc = "idle"
    /\ g_bake_width' = width
    /\ g_bake_height' = height
    /\ g_bake_source_texture' = sourceTexture
    /\ call' = Call("set_bake_params", width, height, sourceTexture)
    /\ UNCHANGED <<resVars, bufVars, meshVars, texVars, g_current_texture, xformVars,
                   flagVars, cacheVars, g_bake_output, g_bake_program, ctlVars, threadVars,
                   ghostVars>>

\* the host fills the program buffer through get_bake_program_ptr()
host_write_bake_program(prog) ==
    /\ pc = "idle"
    /\ g_bake_program' = [i \in 0..(ProgLen - 1) |-> IF i < Len(prog) THEN prog[i + 1] ELSE 0]
    /\ call' = Call("get_bake_program_ptr", Len(prog), 0, 0)
    /\ UNCHANGED <<resVars, bufVars, meshVars, texVars, g_current_texture, xformVars,
                   flagVars, cacheVars, g_bake_output, g_bake_width, g_bake_height,
                   g_bake_source_texture, ctlVars, threadVars, ghostVars>>

\* the writes of a width x height bake stay inside the modelled prefix of
\* the output buffer
BakeFits(width, height) ==
    \/ width <= 0
    \/ height <= 0
    \/ width * height * 4 <= BakeLen

\* the writes run past g_bake_output[MAX_BAKE_SIZE * 4]
BakeOverrun(width, height) ==
    /\ width > 0 /\ height > 0
    /\ width * height > MAX_BAKE_SIZE

\* bake_material, for a program of the modelled opcodes and a size that
\* either fits the modelled prefix or overruns the buffer.  A push past
\* MAX_STACK and a store past the output buffer are undefined behaviour: the
\* output is then any of the outcomes below.
bake_material ==
    /\ pc = "idle"
    /\ frames < MaxFrames
    /\ \/ BakeFits(g_bake_width, g_bake_height)
       \/ BakeOverrun(g_bake_width, g_bake_height)
    /\ ProgramStop(g_bake_program) # "other"
    /\ IF \/ BakeOverrun(g_bake_width, g_bake_height)
          \/ /\ ProgramStop(g_bake_program) = "overflow"
             /\ g_bake_width > 0 /\ g_bake_height > 0
       THEN g_bake_output' \in {g_bake_output, [i \in 0..(BakeLen - 1) |-> 255]}
       ELSE g_bake_output' = BakeRows(g_bake_output, g_bake_program, g_bake_width,
                                      g_bake_height, 0)
    /\ call' = Call("bake_material", 0, 0, 0)
    /\ frames' = frames + 1
    /\ UNCHANGED <<resVars, bufVars, meshVars, texVars, g_current_texture, xformVars,
                   flagVars, cacheVars, g_bake_program, g_bake_width, g_bake_height,
                   g_bake_source_texture, ctlVars, threadVars, edits, since_clear>>

(***************************************************************************)
(* The baking specification.                                               *)
(***************************************************************************)
BakeWidths == {-1, 3, 4, 5, MAX_BAKE_SIZE}
BakeHeights == {0, 2, 3}
BakePrograms ==
    {<<BAKE_OP_FLAT_COLOR, 10, 20, 30, 40, BAKE_OP_END>>,
     <<BAKE_OP_FLAT_COLOR, 255, 0, 128, 255, BAKE_OP_END>>,
     <<BAKE_OP_FLAT_COLOR, 200, 100, 50, 255, BAKE_OP_FLAT_COLOR, 100, 200, 250, 128,
       BAKE_OP_MIX_ADD, 128, BAKE_OP_END>>,
     <<BAKE_OP_MIX_LERP, 7, BAKE_OP_MIX_MULTIPLY, 0, BAKE_OP_END>>}

NextBake ==
    \/ \E width \in BakeWidths, height \in BakeHeights :
          set_bake_params(width, height, -1)
    \/ \E prog \in BakePrograms : host_write_bake_program(prog)
    \/ bake_material

SpecBake == Init /\ [][NextBake]_vars

\* the program buffer holds FLAT_COLOR(r, g, b, a), END
IsFlatColorProgram ==
    /\ g_bake_program[0] = BAKE_OP_FLAT_COLOR
    /\ g_bake_program[5] = BAKE_OP_END

\* C10: for every bake width and height (widths that are no multiple of 4
\* included), bake_material on the program FLAT_COLOR(r, g, b, a), END
\* writes exactly (r, g, b, a) to each of the width * height output pixels
\* and writes no output byte at an index >= width * height * 4, for a size
\* of at most MAX_BAKE_SIZE pixels; with a width or height <= 0 it writes
\* nothing.
C10_FlatColorFillsExactly ==
    [][(/\ call'.op = "bake_material" /\ frames' = frames + 1
        /\ IsFlatColorProgram
        /\ ~BakeOverrun(g_bake_width, g_bake_height)) =>
         \A i \in 0..(BakeLen - 1) :
            IF /\ g_bake_width > 0 /\ g_bake_height > 0
               /\ i < g_bake_width * g_bake_height * 4
            THEN g_bake_output'[i] = g_bake_program[1 + (i % 4)]
            ELSE g_bake_output'[i] = g_bake_output[i]]_vars

\* a 5 x 2 bake over the output of an earlier 4 x 3 bake of another colour
C10_Witness ==
    /\ call.op = "bake_material"
    /\ IsFlatColorProgram
    /\ g_bake_width = 5 /\ g_bake_height = 2
    /\ \A i \in 0..39 : g_bake_output[i] = g_bake_program[1 + (i % 4)]
    /\ g_bake_output[40] # g_bake_program[1]
    /\ g_bake_output[40] # 0
    /\ g_bake_output[47] # g_bake_program[4]
    /\ g_bake_output[48] = 0

(***************************************************************************)
(* The interpreter specification: one bake size, programs that exercise    *)
(* the opcodes one by one.                                                 *)
(***************************************************************************)
StartMachine == Machine(0, 0, EmptyStack, "run")

\* the machine states of one run of the program, from m on
RECURSIVE Reach(_, _)
Reach(prog, m) ==
    IF m.stop # "run" THEN {m} ELSE {m} \cup Reach(prog, BakeOp(prog, m))

\* the bytes of the opcode at ip: the opcode and its operands
Footprint(prog, ip) ==
    LET op == ProgByte(prog, ip)
    IN CASE op = BAKE_OP_FLAT_COLOR -> 5
         [] op \in {BAKE_OP_MIX_MULTIPLY, BAKE_OP_MIX_ADD, BAKE_OP_MIX_LERP,
                    BAKE_OP_ALPHA_CUTOFF} -> 2
         [] op = BAKE_OP_COLOR_RAMP -> 2 + StopCount(prog, ip) * RAMP_STOP_BYTES
         [] OTHER -> 1

\* the program without the n bytes at ip
Splice(prog, ip, n) ==
    [i \in DOMAIN prog |-> ProgByte(prog, IF i < ip THEN i ELSE i + n)]

\* a mix with fewer than two entries, a ramp with none
Underflows(prog, m) ==
    LET op == ProgByte(prog, m.ip)
    IN /\ m.stop = "run"
       /\ \/ op \in {BAKE_OP_MIX_MULTIPLY, BAKE_OP_MIX_ADD, BAKE_OP_MIX_LERP} /\ m.sp < 2
          \/ op = BAKE_OP_COLOR_RAMP /\ m.sp = 0

UnderflowProgram ==
    <<BAKE_OP_COLOR_RAMP, 2, 0, 9, 9, 9, 9, 255, 7, 7, 7, 7,
      BAKE_OP_FLAT_COLOR, 1, 2, 3, 4,
      BAKE_OP_MIX_ADD, 9, BAKE_OP_MIX_LERP, 200, BAKE_OP_MIX_MULTIPLY, 0,
      BAKE_OP_END>>

EmptyStackPrograms ==
    {<<BAKE_OP_END>>,
     <<BAKE_OP_MIX_LERP, 7, BAKE_OP_MIX_MULTIPLY, 0, BAKE_OP_END>>,
     <<BAKE_OP_COLOR_RAMP, 1, 0, 9, 9, 9, 9, BAKE_OP_ALPHA_CUTOFF, 3, 9>>}

\* nine pushes, one more than the stack holds
RECURSIVE Pushes(_)
Pushes(k) ==
    IF k = 0 THEN <<>> ELSE Pushes(k - 1) \o <<BAKE_OP_FLAT_COLOR, k, k, k, 255>>

NinePushProgram == Pushes(MAX_STACK + 1) \o <<BAKE_OP_END>>

MixAddProgram ==
    <<BAKE_OP_FLAT_COLOR, 200, 100, 50, 100, BAKE_OP_FLAT_COLOR, 100, 200, 250, 128,
      BAKE_OP_MIX_ADD, 128, BAKE_OP_END>>

\* ramps of 1, 2 and 3 stops, without and with equal adjacent positions
RampSample ==
    {<<1, 100, 10, 20, 30, 40>>,
     <<2, 0, 0, 0, 0, 255, 255, 255, 255, 255, 255>>,
     <<3, 10, 255, 0, 7, 255, 100, 255, 255, 128, 0, 200, 0, 255, 64, 255>>,
     <<3, 0, 1, 2, 3, 4, 10, 50, 60, 70, 80, 10, 150, 160, 170, 180>>,
     <<3, 10, 9, 9, 9, 9, 10, 99, 99, 99, 99, 20, 200, 200, 200, 200>>}

\* ramp positions: below, at, between and above the stops of the samples
FactorSample == {0, 5, 10, 11, 15, 20, 55, 100, 128, 150, 200, 201, 255}

RampPrograms ==
    {<<BAKE_OP_FLAT_COLOR, f, 1, 2, 3, BAKE_OP_COLOR_RAMP>> \o ramp \o <<BAKE_OP_END>> :
        f \in FactorSample, ramp \in RampSample}

\* two pushes and END, and two pushes and END after a mix has taken one
\* entry of three away
TwoPushProgram ==
    <<BAKE_OP_FLAT_COLOR, 10, 20, 30, 40, BAKE_OP_FLAT_COLOR, 50, 60, 70, 80, BAKE_OP_END>>

ThreePushProgram ==
    <<BAKE_OP_FLAT_COLOR, 10, 20, 30, 40, BAKE_OP_FLAT_COLOR, 255, 128, 64, 255,
      BAKE_OP_FLAT_COLOR, 50, 60, 70, 80, BAKE_OP_MIX_MULTIPLY, 0, BAKE_OP_END>>

OpPrograms ==
    {UnderflowProgram, NinePushProgram, MixAddProgram, TwoPushProgram, ThreePushProgram}
        \cup EmptyStackPrograms
        \cup RampPrograms

OpWidths == {5}
OpHeights == {1}

NextBakeOps ==
    \/ \E width \in OpWidths, height \in OpHeights :
          set_bake_params(width, height, -1)
    \/ \E prog \in OpPrograms : host_write_bake_program(prog)
    \/ bake_material

SpecBakeOps == Init /\ [][NextBakeOps]_vars

\* a bake_material call that ran the program to its end
BakeRan ==
    /\ call'.op = "bake_material"
    /\ frames' = frames + 1
    /\ g_bake_width > 0 /\ g_bake_height > 0
    /\ ~BakeOverrun(g_bake_width, g_bake_height)
    /\ ProgramStop(g_bake_program) = "done"

\* C11: a MIX_MULTIPLY, MIX_ADD or MIX_LERP met with fewer than 2 stack
\* entries, and a COLOR_RAMP met with an empty stack, is skipped: the stack
\* pointer and the stack are unchanged, the opcode's operand bytes are
\* consumed, and the bake writes what the program without that opcode writes.
C11_UnderflowSkips ==
    [][BakeRan =>
         \A m \in Reach(g_bake_program, StartMachine) :
            Underflows(g_bake_program, m) =>
               LET n == Footprint(g_bake_program, m.ip)
               IN /\ BakeOp(g_bake_program, m) = Machine(m.ip + n, m.sp, m.stack, "run")
                  /\ g_bake_output' =
                        BakeRows(g_bake_output, Splice(g_bake_program, m.ip, n),
                                 g_bake_width, g_bake_height, 0)]_vars

\* the program with a ramp on the empty stack and three mixes on a stack of
\* one entry has run, and the one colour pushed has come out
C11_Witness ==
    /\ call.op = "bake_material"
    /\ g_bake_program = [i \in 0..(ProgLen - 1) |->
                            IF i < Len(UnderflowProgram) THEN UnderflowProgram[i + 1] ELSE 0]
    /\ Cardinality({m \in Reach(g_bake_program, StartMachine) :
                       Underflows(g_bake_program, m)}) = 4
    /\ g_bake_width = 5
    /\ \A i \in 0..19 : g_bake_output[i] = (i % 4) + 1

MagentaBytes == <<255, 0, 255, 255>>

\* C12: when the stack is empty at END, or at an unknown opcode (which ends
\* the program as END does), every pixel the bake writes is magenta
\* (255, 0, 255, 255).
C12_EmptyStackIsMagenta ==
    [][(BakeRan /\ RunProgram(g_bake_program, StartMachine).sp = 0) =>
         \A i \in 0..(g_bake_width * g_bake_height * 4 - 1) :
            g_bake_output'[i] = MagentaBytes[(i % 4) + 1]]_vars

\* a program whose mixes and ramp all underflow and that ends at the unknown
\* opcode 9 has been baked
C12_Witness ==
    /\ call.op = "bake_material"
    /\ g_bake_program[0] = BAKE_OP_COLOR_RAMP
    /\ g_bake_program[9] \notin
          {BAKE_OP_FLAT_COLOR, BAKE_OP_MIX_MULTIPLY, BAKE_OP_MIX_ADD, BAKE_OP_MIX_LERP,
           BAKE_OP_COLOR_RAMP, BAKE_OP_ALPHA_CUTOFF, BAKE_OP_END} \cup OtherBakeOpcodes
    /\ RunProgram(g_bake_program, StartMachine).ip = 10
    /\ RunProgram(g_bake_program, StartMachine).sp = 0
    /\ g_bake_width = 5 /\ g_bake_height = 1
    /\ \A i \in 0..19 : g_bake_output[i] = MagentaBytes[(i % 4) + 1]
    /\ g_bake_output[20] = 0

\* C13 as stated: in every bake_material call on a program that the host
\* has ended with END, the stack pointer stays in [0, MAX_STACK] at every
\* opcode, so that no push stores at a stack index >= MAX_STACK.
C13_StackPointerBounded ==
    [][(/\ call'.op = "bake_material" /\ frames' = frames + 1
        /\ g_bake_width > 0 /\ g_bake_height > 0
        /\ \E i \in DOMAIN g_bake_program : g_bake_program[i] = BAKE_OP_END) =>
         \A m \in Reach(g_bake_program, StartMachine) : m.sp \in 0..MAX_STACK]_vars

\* min(255, a + ((b * factor) >> 8))
AddBlend(a, b, factor) == Min2(255, a + ((b * factor) \div 256))

\* C14 as stated: a MIX_ADD met with at least two entries, a below b,
\* leaves the stack one entry shorter with, in every channel (R, G, B and
\* A) of the new top, min(255, a + ((b * factor) >> 8)).
C14_MixAddEveryChannel ==
    [][BakeRan =>
         \A m \in Reach(g_bake_program, StartMachine) :
            (/\ m.stop = "run"
             /\ ProgByte(g_bake_program, m.ip) = BAKE_OP_MIX_ADD
             /\ m.sp >= 2) =>
               LET after == BakeOp(g_bake_program, m)
                   a == m.stack[m.sp - 2]
                   b == m.stack[m.sp - 1]
                   factor == ProgByte(g_bake_program, m.ip + 1)
                   top == after.stack[m.sp - 2]
               IN /\ after.sp = m.sp - 1
                  /\ \A i \in Lanes :
                        /\ top.r[i] = AddBlend(a.r[i], b.r[i], factor)
                        /\ top.g[i] = AddBlend(a.g[i], b.g[i], factor)
                        /\ top.b[i] = AddBlend(a.b[i], b.b[i], factor)
                        /\ top.a[i] = AddBlend(a.a[i], b.a[i], factor)]_vars

\* the stops of the ramp at ip, as the program lists them
StopsAt(prog, ip) ==
    [s \in 1..ProgByte(prog, ip + 1) |->
        LET at == ip + 2 + (s - 1) * RAMP_STOP_BYTES
        IN [pos |-> ProgByte(prog, at),
            c |-> <<ProgByte(prog, at + 1), ProgByte(prog, at + 2),
                    ProgByte(prog, at + 3), ProgByte(prog, at + 4)>>]]

\* 1..16 stops in non-decreasing order of position
WellFormedRamp(stops) ==
    /\ Len(stops) \in 1..MAX_RAMP_STOPS
    /\ \A s \in 1..(Len(stops) - 1) : stops[s].pos <= stops[s + 1].pos

\* (low * (255 - t) + high * t) >> 8, t = (p - low.pos) * 255 / (high.pos - low.pos)
Interpolated(low, high, p, k) ==
    LET t == ((p - low.pos) * 255) \div (high.pos - low.pos)
    IN (low.c[k] * (255 - t) + high.c[k] * t) \div 256

Holds(stops, s, p) == stops[s].pos <= p /\ p <= stops[s + 1].pos

\* the lookup as the code has it: the stop itself at a stop's position
RampLookup(stops, p, k) ==
    LET n == Len(stops)
    IN IF p <= stops[1].pos THEN stops[1].c[k]
       ELSE IF p > stops[n].pos THEN stops[n].c[k]
       ELSE LET s == CHOOSE s \in 1..(n - 1) :
                        /\ Holds(stops, s, p)
                        /\ \A q \in 1..(s - 1) : ~Holds(stops, q, p)
            IN IF p = stops[s + 1].pos THEN stops[s + 1].c[k]
               ELSE Interpolated(stops[s], stops[s + 1], p, k)

\* the lookup as stated: the last stop from its position on, and the
\* interpolation formula for a pair that holds p everywhere between
RampLookupAsStated(stops, p, k, value) ==
    LET n == Len(stops)
    IN IF p <= stops[1].pos THEN value = stops[1].c[k]
       ELSE IF p >= stops[n].pos THEN value = stops[n].c[k]
       ELSE \E s \in 1..(n - 1) :
               /\ Holds(stops, s, p)
               /\ stops[s].pos < stops[s + 1].pos
               /\ value = Interpolated(stops[s], stops[s + 1], p, k)

Channels(entry) == <<entry.r, entry.g, entry.b, entry.a>>

\* the ramps that a run of the program evaluates on a non-empty stack
RampRuns(prog) ==
    {m \in Reach(prog, StartMachine) :
        /\ m.stop = "run"
        /\ ProgByte(prog, m.ip) = BAKE_OP_COLOR_RAMP
        /\ m.sp >= 1
        /\ WellFormedRamp(StopsAt(prog, m.ip))
        /\ \A i \in Lanes : m.stack[m.sp - 1].r[i] \in 0..255}

\* C15 (as the code has it): a COLOR_RAMP of 1..16 stops in non-decreasing
\* order of position, met with a top-of-stack red p in [0, 255], replaces the
\* top entry, per channel, by the first stop if p <= the first position, by
\* the last stop if p > the last position, and else, for the first adjacent
\* pair with low.pos <= p <= high.pos, by the high stop itself if
\* p = high.pos and by (low * (255 - t) + high * t) >> 8 with
\* t = (p - low.pos) * 255 / (high.pos - low.pos) if p < high.pos; the
\* divisor is never zero and every channel of the result is in [0, 255].
C15_RampLookup ==
    [][BakeRan =>
         \A m \in RampRuns(g_bake_program) :
            LET after == BakeOp(g_bake_program, m)
                stops == StopsAt(g_bake_program, m.ip)
                top == Channels(after.stack[m.sp - 1])
                idx(p) == FindStops(g_bake_program, m.ip + 2, Len(stops), p, 0)
            IN /\ after.sp = m.sp
               /\ after.stop = "run"
               /\ \A i \in Lanes, k \in 1..4 :
                     LET p == m.stack[m.sp - 1].r[i]
                     IN /\ top[k][i] = RampLookup(stops, p, k)
                        /\ top[k][i] \in 0..255
                        /\ (p > stops[idx(p)[1] + 1].pos /\ p < stops[idx(p)[2] + 1].pos)
                              => stops[idx(p)[2] + 1].pos - stops[idx(p)[1] + 1].pos > 0]_vars

\* a ramp of three stops has been baked at the position of its middle stop,
\* whose red 255 has come out unrounded
C15_Witness ==
    /\ call.op = "bake_material"
    /\ g_bake_program[0] = BAKE_OP_FLAT_COLOR
    /\ g_bake_program[5] = BAKE_OP_COLOR_RAMP
    /\ g_bake_program[6] = 3
    /\ g_bake_program[1] = g_bake_program[12]
    /\ g_bake_program[7] < g_bake_program[12]
    /\ g_bake_program[12] < g_bake_program[17]
    /\ g_bake_program[13] = 255
    /\ \A i \in 0..19 : g_bake_output[i] = g_bake_program[13 + (i % 4)]

\* C15 as stated
C15_RampAsStated ==
    [][BakeRan =>
         \A m \in RampRuns(g_bake_program) :
            LET after == BakeOp(g_bake_program, m)
                stops == StopsAt(g_bake_program, m.ip)
                top == Channels(after.stack[m.sp - 1])
            IN \A i \in Lanes, k \in 1..4 :
                  /\ RampLookupAsStated(stops, m.stack[m.sp - 1].r[i], k, top[k][i])
                  /\ top[k][i] \in 0..255]_vars

(***************************************************************************)
(* Parallel rendering.  render_triangles_parallel is one action up to the  *)
(* first pthread_create, one action per pthread_create and one for the     *)
(* joins; a worker (a created thread, or the caller running a range whose  *)
(* thread could not be created) takes one step per memory access to the    *)
(* pixel and depth buffers: the load of the depths of a group of pixels    *)
(* and each of the stores that follow from it.  What a worker does between *)
(* two accesses reads only the indices, the vertex cache and the settings, *)
(* which nothing writes while workers run, and is taken with the access    *)
(* before it (or with the worker's start).                                 *)
(***************************************************************************)
set_thread_count(count) ==
    /\ pc = "idle"
    /\ g_thread_count' = Min2(Max2(count, 1), MAX_THREADS)
    /\ call' = Call("set_thread_count", count, 0, 0)
    /\ UNCHANGED <<resVars, bufVars, meshVars, bakeVars, texVars, g_current_texture,
                   xformVars, flagVars, cacheVars, ctlVars, workData, threadCreated,
                   workers, handed, frames, since_clear>>

\* the pixels of k consecutive columns from x that pass the inside test
GroupLanes(Gx, S, y, x, w, k, path) ==
    SelectSeq([j \in 1..k |-> [idx |-> y * Gx.render_width + x + j - 1,
                               w |-> WStep(S, w, j - 1), path |-> path]],
              LAMBDA lane : InsideTest(lane.w))

RECURSIVE ScalarTailGroups(_, _, _, _, _)
ScalarTailGroups(Gx, S, y, x, w) ==
    IF x > S.maxX THEN <<>>
    ELSE <<GroupLanes(Gx, S, y, x, w, 1, "scalar")>>
             \o ScalarTailGroups(Gx, S, y, x + 1, WStep(S, w, 1))

RECURSIVE FastPathGroups(_, _, _, _, _)
FastPathGroups(Gx, S, y, x, w) ==
    IF x + 3 <= S.maxX
    THEN <<GroupLanes(Gx, S, y, x, w, 4, "simd")>>
             \o FastPathGroups(Gx, S, y, x + 4, WStep(S, w, 4))
    ELSE ScalarTailGroups(Gx, S, y, x, w)

RECURSIVE TexturedPathGroups(_, _, _, _, _)
TexturedPathGroups(Gx, S, y, x, w) ==
    IF x > S.maxX THEN <<>>
    ELSE <<GroupLanes(Gx, S, y, x, w, 1, "textured")>>
             \o TexturedPathGroups(Gx, S, y, x + 1, WStep(S, w, 1))

RECURSIVE ScanRowsGroups(_, _, _, _)
ScanRowsGroups(Gx, S, y, wrow) ==
    IF y > S.maxY THEN <<>>
    ELSE (IF ~S.useTexture THEN FastPathGroups(Gx, S, y, S.minX, wrow)
          ELSE TexturedPathGroups(Gx, S, y, S.minX, wrow))
            \o ScanRowsGroups(Gx, S, y + 1, RowStep(S, wrow))

\* the groups of pixels whose depths rasterize_triangle loads, in scan order
TriangleGroups(Gx, S) ==
    IF Rejected(S) THEN <<>>
    ELSE SelectSeq(ScanRowsGroups(Gx, S, S.minY, EdgeAt(S, S.minX, S.minY)),
                   LAMBDA lanes : lanes # <<>>)

\* the body of the worker's loop for triangle t, up to rasterize_triangle
WorkerTriangle(Gx, t) ==
    LET v0 == Gx.vertex_cache[Gx.indices[t * 3]]
        v1 == Gx.vertex_cache[Gx.indices[t * 3 + 1]]
        v2 == Gx.vertex_cache[Gx.indices[t * 3 + 2]]
        lit == LitVertices(Gx, v0, v1, v2)
        S == TriSetup(Gx, lit[1], lit[2], lit[3])
    IN [S |-> S,
        groups |-> IF Dispatched(Gx, v0, v1, v2) THEN TriangleGroups(Gx, S) ELSE <<>>]

PixelStore(idx, colour) == [buf |-> "pixels", idx |-> idx, val |-> colour]
DepthStore(idx, depth) == [buf |-> "depth", idx |-> idx, val |-> depth]

\* a lane that stores its depth and leaves the colour alone
LaneStoresDepthOnly(Gx, S, lane) ==
    IF lane.path = "simd"
    THEN IF SimdDepthPass(S, lane.w, Gx.depth[lane.idx])
         THEN <<DepthStore(lane.idx, DepthU16(S, lane.w))>> ELSE <<>>
    ELSE IF ScalarDepthPass(S, lane.w, Gx.depth[lane.idx])
         THEN <<DepthStore(lane.idx, DepthU16(S, lane.w))>> ELSE <<>>

\* the stores of one pixel, decided by the depth that was loaded: the fast
\* path stores the pixel and then the depth, the scalar paths the depth and
\* then the pixel
LaneStores(Gx, S, lane) ==
    IF lane.path = "simd"
    THEN IF SimdDepthPass(S, lane.w, Gx.depth[lane.idx])
         THEN <<PixelStore(lane.idx, FlatColor(S, lane.w)),
                DepthStore(lane.idx, DepthU16(S, lane.w))>>
         ELSE <<>>
    ELSE IF ScalarDepthPass(S, lane.w, Gx.depth[lane.idx])
         THEN <<DepthStore(lane.idx, DepthU16(S, lane.w)),
                PixelStore(lane.idx, IF lane.path = "textured"
                                     THEN TexturedColor(Gx, S, lane.w)
                                     ELSE FlatColor(S, lane.w))>>
         ELSE <<>>

RECURSIVE GroupStores(_, _, _)
GroupStores(Gx, S, lanes) ==
    IF lanes = <<>> THEN <<>>
    ELSE LaneStores(Gx, S, Head(lanes)) \o GroupStores(Gx, S, Tail(lanes))

\* from triangle t, group u: the next group of the range that exists
RECURSIVE Seek(_, _, _, _)
Seek(Gx, t, u, end_triangle) ==
    IF t >= end_triangle THEN [t |-> end_triangle, u |-> 1, found |-> FALSE]
    ELSE IF u <= Len(WorkerTriangle(Gx, t).groups) THEN [t |-> t, u |-> u, found |-> TRUE]
    ELSE Seek(Gx, t + 1, 1, end_triangle)

InParallel == pc \in {"spawn", "join"}

\* the worker of a range runs on, touching no shared buffer, to the next
\* group of pixels whose depths it has to load, or to its return; the
\* triangles it fetches on the way are counted (fresh: triangle at.t has not
\* been counted yet)
Settle(Gx, at, end_triangle, count, fresh) ==
    LET pos == Seek(Gx, at.t, at.u, end_triangle)
    IN [worker |-> [st |-> IF pos.found THEN "run" ELSE "done",
                    t |-> pos.t, u |-> pos.u, pend |-> <<>>],
        handed |-> [x \in DOMAIN count |->
                      IF /\ x < end_triangle
                         /\ \/ x = at.t /\ fresh
                            \/ x > at.t /\ x <= pos.t
                      THEN count[x] + 1 ELSE count[x]]]

StoreWorker(i, settled) ==
    /\ workers' = [workers EXCEPT ![i] = settled.worker]
    /\ handed' = settled.handed

\* render_thread_worker: the load of the depths of the next group of pixels
WorkerLoad(i) ==
    /\ workers[i].st = "run"
    /\ workers[i].pend = <<>>
    /\ \E stores \in {LET tri == WorkerTriangle(G, workers[i].t)
                     IN GroupStores(G, tri.S, tri.groups[workers[i].u])} :
          IF stores = <<>>
          THEN \E settled \in {Settle(G, [t |-> workers[i].t, u |-> workers[i].u + 1],
                                      workData[i].end_triangle, handed, FALSE)} :
                  StoreWorker(i, settled)
          ELSE /\ workers' = [workers EXCEPT ![i].u = @ + 1, ![i].pend = stores]
               /\ UNCHANGED handed
    /\ UNCHANGED <<resVars, bufVars, meshVars, bakeVars, texVars, g_current_texture,
                   xformVars, flagVars, cacheVars, ctlVars, g_thread_count, workData,
                   threadCreated, call, ghostVars>>

\* one store of the worker to rowPixels or rowDepth
WorkerStore(i) ==
    /\ workers[i].st = "run"
    /\ workers[i].pend # <<>>
    /\ LET store == Head(workers[i].pend)
       IN IF store.buf = "pixels"
          THEN /\ g_pixels' = [g_pixels EXCEPT ![store.idx] = store.val]
               /\ UNCHANGED g_depth
          ELSE /\ g_depth' = [g_depth EXCEPT ![store.idx] = store.val]
               /\ UNCHANGED g_pixels
    /\ IF Tail(workers[i].pend) = <<>>
       THEN \E settled \in {Settle(G, workers[i], workData[i].end_triangle, handed, FALSE)} :
               StoreWorker(i, settled)
       ELSE /\ workers' = [workers EXCEPT ![i].pend = Tail(@)]
            /\ UNCHANGED handed
    /\ UNCHANGED <<resVars, meshVars, bakeVars, texVars, g_current_texture,
                   xformVars, flagVars, cacheVars, ctlVars, g_thread_count, workData,
                   threadCreated, call, ghostVars>>

\* a lookup that processes the vertex and leaves its flag unset
PopulateVertexUnflagged(Gx, idx) ==
    IF Gx.vertex_processed[idx] = 0
    THEN [Gx EXCEPT !.vertex_cache[idx] = process_vertex(Gx, idx),
                    !.process_calls[idx] = @ + 1]
    ELSE Gx

\* if (!g_vertex_processed[i]) { g_vertex_cache[i] = process_vertex(i); ... = 1; }
PopulateVertex(Gx, idx) ==
    IF Gx.vertex_processed[idx] = 0
    THEN [Gx EXCEPT !.vertex_cache[idx] = process_vertex(Gx, idx),
                    !.vertex_processed[idx] = 1,
                    !.process_calls[idx] = @ + 1]
    ELSE Gx

PopulateTriangle(Gx, t) ==
    PopulateVertex(PopulateVertex(PopulateVertex(Gx, Gx.indices[t * 3]),
                                  Gx.indices[t * 3 + 1]),
                   Gx.indices[t * 3 + 2])

\* the pre-population loop of render_triangles_parallel
RECURSIVE PopulateLoop(_, _)
PopulateLoop(Gx, t) ==
    IF t >= NumTriangles(Gx) THEN Gx ELSE PopulateLoop(PopulateTriangle(Gx, t), t + 1)

\* calls of render_triangles_parallel in one run
ParFrames == 1

EffectiveThreads(Gx_thread_count) == Min2(Gx_thread_count, MAX_THREADS)

\* a share rounded down
TrianglesPerThreadFloor(numTriangles, effectiveThreads) ==
    TruncDiv(numTriangles, effectiveThreads)

\* (numTriangles + effectiveThreads - 1) / effectiveThreads
TrianglesPerThread(numTriangles, effectiveThreads) ==
    TruncDiv(numTriangles + effectiveThreads - 1, effectiveThreads)

\* a test of the thread count alone
ThreadedAnyCount(Gx, thread_count) == thread_count > 1

Threaded(Gx, thread_count) ==
    ~(NumTriangles(Gx) < MIN_TRIANGLES_PER_THREAD \/ thread_count <= 1)

\* render_triangles_parallel up to the work distribution; with a small batch
\* or a single thread it is render_triangles
render_triangles_parallel ==
    /\ pc = "idle"
    /\ frames < ParFrames
    /\ call' = Call("render_triangles_parallel", 0, 0, 0)
    /\ frames' = frames + 1
    /\ since_clear' = IF since_clear < 0 THEN since_clear ELSE since_clear + 1
    /\ cur_t' = 0
    /\ workData' = [i \in 0..(MAX_THREADS - 1) |-> NoWork]
    /\ threadCreated' = [i \in 0..(MAX_THREADS - 1) |-> FALSE]
    /\ workers' = [i \in 0..(MAX_THREADS - 1) |-> NoWorker]
    /\ handed' = NoneHanded
    /\ LET cleared == [ClearProcessedFlags(G) EXCEPT !.process_calls = NoProcessCalls]
       IN IF Threaded(G, g_thread_count)
          THEN /\ pc' = "spawn"
               /\ StoreGlobals(PopulateLoop(cleared, 0))
          ELSE /\ pc' = IF 0 < NumTriangles(G) THEN "render" ELSE "idle"
               /\ StoreGlobals(cleared)
    /\ UNCHANGED <<resVars, meshVars, bakeVars, texVars, g_current_texture, xformVars,
                   flagVars, g_thread_count, edits>>

\* the ranges handed out so far
Ranges == {i \in 0..(MAX_THREADS - 1) : workers[i].st # "none"}

\* pthread_create calls of one frame that fail
MaxCreateFailures == 1

\* one iteration of the loop that creates the threads
CreateThread(created) ==
    LET i == Cardinality(Ranges)
        numTriangles == NumTriangles(G)
        effectiveThreads == EffectiveThreads(g_thread_count)
        end_triangle == Min2(cur_t + TrianglesPerThread(numTriangles, effectiveThreads),
                             numTriangles)
    IN /\ pc = "spawn"
       /\ \A j \in Ranges : threadCreated[j] \/ workers[j].st = "done"
       /\ workData' = [workData EXCEPT ![i] = [start_triangle |-> cur_t,
                                               end_triangle |-> end_triangle]]
       /\ threadCreated' = [threadCreated EXCEPT ![i] = created]
       /\ \E settled \in {Settle(G, [t |-> cur_t, u |-> 1], end_triangle, handed, TRUE)} :
             StoreWorker(i, settled)
       /\ cur_t' = end_triangle
       /\ pc' = IF i + 1 < effectiveThreads /\ end_triangle < numTriangles
                THEN "spawn" ELSE "join"
       /\ UNCHANGED <<resVars, bufVars, meshVars, bakeVars, texVars, g_current_texture,
                      xformVars, flagVars, cacheVars, g_thread_count, call, ghostVars>>

pthread_create_ok == CreateThread(TRUE)

\* the thread is not created and the caller runs the range itself
pthread_create_failed ==
    /\ Cardinality({j \in Ranges : ~threadCreated[j]}) < MaxCreateFailures
    /\ CreateThread(FALSE)

\* a return that does not wait for the threads
pthread_join_none ==
    /\ pc = "join"
    /\ pc' = "idle"
    /\ UNCHANGED <<resVars, bufVars, meshVars, bakeVars, texVars, g_current_texture,
                   xformVars, flagVars, cacheVars, threadVars, cur_t, call, ghostVars>>

\* the joins of the created threads, and the return
pthread_join_all ==
    /\ pc = "join"
    /\ \A j \in Ranges : workers[j].st = "done"
    /\ pc' = "idle"
    /\ UNCHANGED <<resVars, bufVars, meshVars, bakeVars, texVars, g_current_texture,
                   xformVars, flagVars, cacheVars, threadVars, cur_t, call, ghostVars>>

(***************************************************************************)
(* The threaded specification: the host has uploaded a scene of 63 to 65   *)
(* triangles and cleared the buffers; it sets the thread count and renders.*)
(***************************************************************************)
ParW == 4
ParH == 2

ParCounts == {MIN_TRIANGLES_PER_THREAD - 1, MIN_TRIANGLES_PER_THREAD, ParTris}

\* the first and the last triangle are faces of the scene that overlap, the
\* triangles between are degenerate
ParScene(n) ==
    [i \in 0..(3 * ParTris - 1) |->
        LET t == i \div 3
        IN IF t >= n THEN 0
           ELSE IF t = 0 THEN i
           ELSE IF t = n - 1 THEN 3 + (i % 3)
           ELSE t % NV]

\* the first two triangles, of the first range, and the last two, of the last
\* range, are faces: the second has a vertex before the near plane, and no
\* pixel is covered by faces of both ranges
ParSceneApart(n) ==
    [i \in 0..(3 * ParTris - 1) |->
        LET t == i \div 3
        IN IF t >= n THEN 0
           ELSE IF t = 0 THEN <<0, 1, 2>>[(i % 3) + 1]
           ELSE IF t = 1 THEN <<7, 1, 2>>[(i % 3) + 1]
           ELSE IF t = n - 2 THEN <<2, 4, 5>>[(i % 3) + 1]
           ELSE IF t = n - 1 THEN <<1, 5, 2>>[(i % 3) + 1]
           ELSE t % NV]

ThreadCountSample == {0, 2, 3, 5, 6, 7, 9}

InitParallel ==
    /\ g_render_width = ParW
    /\ g_render_height = ParH
    /\ g_pixel_count = ParW * ParH
    /\ g_depth = ClearDepthBuffer([i \in 0..(BufLen - 1) |-> 0], ParW * ParH)
    /\ g_pixels = ClearPixels([i \in 0..(BufLen - 1) |-> ZeroPixel], ParW * ParH,
                              ClearColor(SceneClearColor[1], SceneClearColor[2],
                                         SceneClearColor[3]))
    /\ g_vertices = [i \in 0..(NV - 1) |-> SceneVertex(i)]
    /\ g_vertex_count = NV
    /\ \E n \in ParCounts :
          /\ g_indices \in {ParScene(n), ParSceneApart(n)}
          /\ g_index_count = 3 * n
    /\ g_textures = [s \in 0..(MAX_TEXTURES - 1) |-> [o \in 0..(TexLen - 1) |-> TexByte(s, o)]]
    /\ g_texture_sizes = [i \in 0..(2 * MAX_TEXTURES - 1) |-> SceneTexSize(i)]
    /\ g_current_texture = -1
    /\ g_mvp_matrix = IdentityMatrix
    /\ g_model_matrix = IdentityMatrix
    /\ g_light_dir = [i \in 0..3 |-> IF i = 2 THEN -FX ELSE 0]
    /\ g_light_color = [i \in 0..3 |-> FX]
    /\ g_ambient_light = TruncDiv(FX, 5)
    /\ g_enable_lighting = 0
    /\ g_enable_dithering = 1
    /\ g_enable_texturing = 1
    /\ g_enable_backface_culling = 1
    /\ g_enable_vertex_snapping = 1
    /\ g_enable_smooth_shading = 0
    /\ g_snap_resolution_x = 320
    /\ g_snap_resolution_y = 240
    /\ InitCache /\ InitThreads /\ InitBakeVars
    /\ pc = "idle" /\ cur_t = 0
    /\ call = Call("clear", SceneClearColor[1], SceneClearColor[2], SceneClearColor[3])
    /\ frames = 0 /\ edits = 0 /\ since_clear = 0

NextParallel ==
    \/ /\ edits < MaxEdits
       /\ edits' = edits + 1
       /\ \E count \in ThreadCountSample : set_thread_count(count)
    \/ render_triangles_parallel
    \/ render_triangles_iter
    \/ pthread_create_ok
    \/ pthread_create_failed
    \/ \E i \in 0..(MAX_THREADS - 1) : WorkerLoad(i)
    \/ \E i \in 0..(MAX_THREADS - 1) : WorkerStore(i)
    \/ pthread_join_all

SpecParallel == InitParallel /\ [][NextParallel]_vars

\* the vertices that the triangles of the frame refer to
Referenced == {g_indices[k] : k \in 0..(3 * NumTriangles(G) - 1)}

Populated ==
    \A idx \in Referenced :
       /\ g_vertex_processed[idx] = 1
       /\ process_calls[idx] = 1
       /\ g_vertex_cache[idx] = process_vertex(G, idx)

\* C16: from the step of render_triangles_parallel that precedes the first
\* pthread_create to the return, every vertex that a triangle of the frame
\* refers to has its flag set, has been processed exactly once since the
\* flags were cleared and has its cache entry equal to process_vertex of the
\* frame's inputs; and no step taken while workers may run (no worker, then)
\* changes the cache or the flags.
C16_PopulateThenRead ==
    /\ [](InParallel => Populated)
    /\ [][(InParallel /\ InParallel') => UNCHANGED cacheVars]_vars

\* two workers are between their stores, over a cache in which every vertex
\* of the pool, referred to by many triangles, has been processed once
C16_Witness ==
    /\ pc = "join"
    /\ Cardinality({i \in Ranges : workers[i].st = "run" /\ workers[i].pend # <<>>}) = 2
    /\ \A idx \in 0..(NV - 1) : idx \in Referenced /\ process_calls[idx] = 1
    /\ Cardinality({k \in 0..(g_index_count - 1) : g_indices[k] = 1}) > 1

RangeOf(i) == workData[i].start_triangle..(workData[i].end_triangle - 1)

\* the threaded path has been taken to its end
ParallelFrameDone ==
    /\ pc = "idle"
    /\ call.op = "render_triangles_parallel"
    /\ Ranges # {}

\* C17: in the threaded path (64 triangles or more, a thread count of 2 to
\* 8) the ranges handed out are the first k entries of workData for a
\* k <= min(thread_count, 8); each is non-empty and begins where the one
\* before it ends, the first at 0, so they are contiguous and pairwise
\* disjoint; once the creating loop is left their union is [0, n); a range
\* whose thread could not be created has been run to its end by the caller
\* before the next range is handed out, and at the return every triangle
\* has been fetched by a worker exactly once.
C17_RangesPartition ==
    LET n == NumTriangles(G)
        k == Cardinality(Ranges)
    IN /\ InParallel =>
            /\ n >= MIN_TRIANGLES_PER_THREAD
            /\ g_thread_count \in 2..MAX_THREADS
            /\ Ranges = 0..(k - 1)
            /\ k <= Min2(g_thread_count, MAX_THREADS)
            /\ \A t \in DOMAIN handed : handed[t] <= 1
       /\ (InParallel \/ ParallelFrameDone) =>
            /\ \A i \in Ranges :
                  /\ RangeOf(i) # {}
                  /\ workData[i].start_triangle =
                        IF i = 0 THEN 0 ELSE workData[i - 1].end_triangle
                  /\ workData[i].end_triangle <= n
                  /\ \A j \in Ranges \ {i} : RangeOf(i) \cap RangeOf(j) = {}
                  /\ (~threadCreated[i] /\ i < k - 1) => workers[i].st = "done"
            /\ (pc # "spawn") => UNION {RangeOf(i) : i \in Ranges} = 0..(n - 1)
       /\ ParallelFrameDone =>
            \A t \in DOMAIN handed : handed[t] = IF t < n THEN 1 ELSE 0

\* 65 triangles have been rendered in 8 ranges, one of them by the caller
C17_Witness ==
    /\ ParallelFrameDone
    /\ NumTriangles(G) = ParTris
    /\ Cardinality(Ranges) = MAX_THREADS
    /\ \E i \in Ranges : ~threadCreated[i] /\ i < MAX_THREADS - 1
    /\ workData[MAX_THREADS - 1].end_triangle - workData[MAX_THREADS - 1].start_triangle
          < workData[0].end_triangle - workData[0].start_triangle

\* the triangles of the frame that reach the scan of rasterize_triangle
Scanned ==
    {t \in Triangles : LET info == TriInfo(G, t) IN info.disp /\ ~Rejected(info.S)}

\* those of them that cover pixel (x, y)
Covering(scanned, x, y) == {t \in scanned : Covers(TriInfo(G, t), x, y)}

\* C18: the depth load, the depth store and the pixel store of a worker are
\* separate steps that workers of different ranges interleave freely, and
\* the last store to a pixel's colour and the last store to its depth
\* stand: after a threaded frame over cleared buffers a pixel is as
\* cleared, or holds the colour of a triangle that covers it and the depth
\* of a triangle that covers it, which need not be the same triangle nor
\* the nearer one.
C18_LastWriterWins ==
    ParallelFrameDone =>
        \E scanned \in {Scanned} : \A x \in Columns, y \in Rows :
           LET idx == y * g_render_width + x
           IN \/ /\ g_depth[idx] = CLEAR_DEPTH
                 /\ g_pixels[idx] = ClearColor(SceneClearColor[1], SceneClearColor[2],
                                               SceneClearColor[3])
              \/ \E a, b \in Covering(scanned, x, y) :
                    /\ g_pixels[idx] = ColourAt(G, TriInfo(G, a), x, y)
                    /\ g_depth[idx] = DepthAt(TriInfo(G, b), x, y)

\* a pixel shows the colour of the nearer of two triangles of different
\* ranges and holds the depth of the farther
C18_Witness ==
    /\ ParallelFrameDone
    /\ \E scanned \in {Scanned} : \E x \in Columns, y \in Rows :
          \E a, b \in Covering(scanned, x, y) :
             /\ ColourAt(G, TriInfo(G, a), x, y) # ColourAt(G, TriInfo(G, b), x, y)
             /\ DepthAt(TriInfo(G, a), x, y) < DepthAt(TriInfo(G, b), x, y)
             /\ g_pixels[y * g_render_width + x] = ColourAt(G, TriInfo(G, a), x, y)
             /\ g_depth[y * g_render_width + x] = DepthAt(TriInfo(G, b), x, y)
             /\ \E i, j \in Ranges : i # j /\ a \in RangeOf(i) /\ b \in RangeOf(j)

(***************************************************************************)
(* The vertex cache across frames.                                         *)
(***************************************************************************)
\* the step that begins a call of render_triangles
FrameBegins == pc = "idle" /\ frames' = frames + 1 /\ call'.op = "render_triangles"

\* C19: in every run of frames with setter calls between them, a call of
\* render_triangles begins with the flags of all indices below vertex_count
\* cleared; while it runs, every flagged entry of the cache is
\* process_vertex of the current inputs and no vertex has been processed
\* more than once since the call began; and each iteration leaves the
\* buffers that the front-end produces from the three vertices processed
\* afresh from the current inputs.
C19_FreshEveryFrame ==
    /\ [](\A i \in DOMAIN process_calls : process_calls[i] <= 1)
    /\ [](pc = "render" =>
             \A i \in 0..(g_vertex_count - 1) :
                g_vertex_processed[i] = 1 => g_vertex_cache[i] = process_vertex(G, i))
    /\ [][FrameBegins =>
             \A i \in 0..(g_vertex_count - 1) : g_vertex_processed'[i] = 0]_vars
    /\ [][pc = "render" =>
             <<g_pixels', g_depth'>> =
                Buffers(FrontEnd(G, process_vertex(G, g_indices[cur_t * 3]),
                                 process_vertex(G, g_indices[cur_t * 3 + 1]),
                                 process_vertex(G, g_indices[cur_t * 3 + 2])))]_vars

\* the second frame is at its second triangle after a change of a setting
\* that process_vertex reads: a vertex of that triangle is flagged and
\* fresh, and the entry an earlier frame left for another vertex is stale
\* and not flagged
C19_Witness ==
    /\ pc = "render"
    /\ frames = 2
    /\ cur_t = 1
    /\ \E i \in 0..(NV - 1) :
          /\ g_vertex_processed[i] = 0
          /\ g_vertex_cache[i] # ZeroProcessed
          /\ g_vertex_cache[i] # process_vertex(G, i)
    /\ \E j \in 0..(NV - 1) :
          /\ g_vertex_processed[j] = 1
          /\ process_calls[j] = 1
          /\ j \in {g_indices[k] : k \in 0..2}

(***************************************************************************)
(* The depth-range reject.                                                 *)
(***************************************************************************)
\* NDC z of the three vertices of triangle t, from the current inputs
DepthsOf(t) == {process_vertex(G, g_indices[t * 3 + k]).depth : k \in 0..2}

OutOfRange(t) == \E z \in DepthsOf(t) : z < -FX \/ z > FX

\* what rasterize_triangle does with triangle t of the current inputs
Rasterized(t) ==
    LET v0 == process_vertex(G, g_indices[t * 3])
        v1 == process_vertex(G, g_indices[t * 3 + 1])
        v2 == process_vertex(G, g_indices[t * 3 + 2])
    IN Buffers(ShadeAndRasterize(G, LitVertices(G, v0, v1, v2)))

\* C20: the iteration of render_triangles for a triangle with a vertex
\* whose NDC z is below -1 or above 1 leaves the pixel and the depth buffer
\* as they are, and the iteration for any other triangle of the frame
\* leaves what rasterize_triangle makes of that triangle.
C20_OutOfRangeSkipped ==
    [][pc = "render" =>
          IF OutOfRange(cur_t) THEN UNCHANGED bufVars
          ELSE <<g_pixels', g_depth'>> = Rasterized(cur_t)]_vars

\* a frame over cleared buffers has ended whose first triangle has a vertex
\* out of range and would have covered a pixel that is still as cleared,
\* and whose second triangle has written a pixel
C20_Witness ==
    /\ FrameDoneAfterClear
    /\ NumTriangles(G) = 2
    /\ OutOfRange(0) /\ ~OutOfRange(1)
    /\ Rasterized(0) # Buffers(G)
    /\ \E x \in Columns, y \in Rows :
          LET idx == y * g_render_width + x
              skipped == TriInfo(G, 0)
          IN /\ ~Rejected(skipped.S)
             /\ InsideTest(EdgeAt(skipped.S, x, y))
             /\ g_depth[idx] = CLEAR_DEPTH
    /\ \E x \in Columns, y \in Rows :
          /\ Covers(TriInfo(G, 1), x, y)
          /\ g_pixels[y * g_render_width + x] = ColourAt(G, TriInfo(G, 1), x, y)
          /\ g_depth[y * g_render_width + x] = DepthAt(TriInfo(G, 1), x, y)

(***************************************************************************)
(* The pixels and texels that rasterize_triangle touches.                  *)
(***************************************************************************)
\* the pixels of row y from column x on whose depth is loaded, with their
\* edge values: four at a time in the fast path while x + 3 <= maxX, then
\* (and in the textured path) each pixel that passes the inside test
RECURSIVE RowLoads(_, _, _, _)
RowLoads(S, y, x, w) ==
    IF x > S.maxX THEN {}
    ELSE IF ~S.useTexture /\ x + 3 <= S.maxX
    THEN (IF \E j \in 0..3 : InsideTest(WStep(S, w, j))
          THEN {[x |-> x + j, y |-> y, w |-> WStep(S, w, j)] : j \in 0..3}
          ELSE {})
            \cup RowLoads(S, y, x + 4, WStep(S, w, 4))
    ELSE (IF InsideTest(w) THEN {[x |-> x, y |-> y, w |-> w]} ELSE {})
            \cup RowLoads(S, y, x + 1, WStep(S, w, 1))

RECURSIVE ScanLoads(_, _, _)
ScanLoads(S, y, wrow) ==
    IF y > S.maxY THEN {}
    ELSE RowLoads(S, y, S.minX, wrow) \cup ScanLoads(S, y + 1, RowStep(S, wrow))

TriangleLoads(S) ==
    IF Rejected(S) THEN {} ELSE ScanLoads(S, S.minY, EdgeAt(S, S.minX, S.minY))

\* the globals at another resolution
AtResolution(Gx, width, height) ==
    [Gx EXCEPT !.render_width = width, !.render_height = height]

\* the setup of triangle t of the current inputs, as the front-end hands it on
SetupOf(Gx, t) ==
    LET v0 == process_vertex(Gx, Gx.indices[t * 3])
        v1 == process_vertex(Gx, Gx.indices[t * 3 + 1])
        v2 == process_vertex(Gx, Gx.indices[t * 3 + 2])
        lit == LitVertices(Gx, v0, v1, v2)
    IN TriSetup(Gx, lit[1], lit[2], lit[3])

InBounds(Gx, S) ==
    \A p \in TriangleLoads(S) :
       /\ 0 <= p.x /\ p.x <= Gx.render_width - 1
       /\ 0 <= p.y /\ p.y <= Gx.render_height - 1
       /\ p.y * Gx.render_width + p.x \in 0..(Gx.render_width * Gx.render_height - 1)
       /\ (S.useTexture /\ InsideTest(p.w)) =>
             /\ 0 <= TexU(S, p.w) /\ TexU(S, p.w) < S.texW
             /\ 0 <= TexV(S, p.w) /\ TexV(S, p.w) < S.texH
             /\ (TexV(S, p.w) * S.texW + TexU(S, p.w)) * 4
                   \in 0..(S.texW * S.texH * 4 - 1)

LineBits == 6
\* loop iterations of draw_line that are followed before the call is
\* reported as not having returned
LineFuel == 96

\* int32_t arithmetic: the result wrapped to LineBits bits
WrapInt(v) == ((v + 2 ^ (LineBits - 1)) % (2 ^ LineBits)) - 2 ^ (LineBits - 1)

\* (int32_t)f for a float in units 1/FX: truncation toward zero
ToInt(f) == TruncDiv(f, FX)

OnScreen(Gx, sx, sy) ==
    sx >= 0 /\ sx < Gx.render_width /\ sy >= 0 /\ sy < Gx.render_height

\* the body of the viewport test of draw_line with the test of the depth
\* left out
LinePlotUntested(Gx, ix0, iy0, color, depth_value) ==
    IF OnScreen(Gx, ix0, iy0)
    THEN WritePixel(Gx, iy0 * Gx.render_width + ix0, depth_value, color)
    ELSE Gx

\* one point of the line: inside the viewport, and depth_value <= the
\* stored depth
LinePlot(Gx, ix0, iy0, color, depth_value) ==
    IF OnScreen(Gx, ix0, iy0)
    THEN LET idx == iy0 * Gx.render_width + ix0
         IN IF depth_value <= Gx.depth[idx]
            THEN WritePixel(Gx, idx, depth_value, color)
            ELSE Gx
    ELSE Gx

\* the locals of draw_line before its loop
LineSetup(x0, y0, x1, y1) ==
    LET ix0 == ToInt(x0)
        iy0 == ToInt(y0)
        ix1 == ToInt(x1)
        iy1 == ToInt(y1)
        dx == IF ix1 > ix0 THEN WrapInt(ix1 - ix0) ELSE WrapInt(ix0 - ix1)
        dy == IF iy1 > iy0 THEN WrapInt(iy0 - iy1) ELSE WrapInt(iy1 - iy0)
    IN [ix0 |-> ix0, iy0 |-> iy0, ix1 |-> ix1, iy1 |-> iy1, dx |-> dx, dy |-> dy,
        sx |-> IF ix0 < ix1 THEN 1 ELSE -1, sy |-> IF iy0 < iy1 THEN 1 ELSE -1,
        err |-> WrapInt(dx + dy)]

\* the error update and the step of one iteration
LineStep(L) ==
    LET e2 == WrapInt(2 * L.err)
        L1 == IF e2 >= L.dy
              THEN [L EXCEPT !.err = WrapInt(L.err + L.dy), !.ix0 = WrapInt(L.ix0 + L.sx)]
              ELSE L
    IN IF e2 <= L.dx
       THEN [L1 EXCEPT !.err = WrapInt(L1.err + L.dx), !.iy0 = WrapInt(L1.iy0 + L.sy)]
       ELSE L1

\* one iteration of while (true): plot, leave at the end point, step.  st
\* holds the globals, the locals, the points visited so far and whether the
\* loop has been left (then nothing more happens)
LineIter(st, color, depth_value) ==
    IF st.returned THEN st
    ELSE LET plotted == LinePlot(st.G, st.L.ix0, st.L.iy0, color, depth_value)
             visited == Append(st.points, <<st.L.ix0, st.L.iy0>>)
         IN IF st.L.ix0 = st.L.ix1 /\ st.L.iy0 = st.L.iy1
            THEN [G |-> plotted, L |-> st.L, points |-> visited, returned |-> TRUE]
            ELSE [G |-> plotted, L |-> LineStep(st.L), points |-> visited,
                  returned |-> FALSE]

\* n iterations in sequence (split in halves to keep the evaluation shallow)
RECURSIVE LineIters(_, _, _, _)
LineIters(st, n, color, depth_value) ==
    IF n = 0 THEN st
    ELSE IF n = 1 THEN LineIter(st, color, depth_value)
    ELSE LET half == LineIters(st, n \div 2, color, depth_value)
         IN IF half.returned THEN half
            ELSE LineIters(half, n - n \div 2, color, depth_value)

\* the call: the loop followed for at most LineFuel iterations; returned is
\* FALSE when it is still running then
DrawLine(Gx, x0, y0, x1, y1, r, g, b, depth_value) ==
    LineIters([G |-> Gx, L |-> LineSetup(x0, y0, x1, y1), points |-> <<>>,
               returned |-> FALSE],
              LineFuel, PackABGR(r, g, b), depth_value)

\* one pixel of a point: inside the viewport, no depth test, depth 0
PointPlot(Gx, sx, sy, color) ==
    IF OnScreen(Gx, sx, sy)
    THEN WritePixel(Gx, sy * Gx.render_width + sx, 0, color)
    ELSE Gx

\* for (px = from; px <= halfSize; px++) of render_point, row py
RECURSIVE PointRow(_, _, _, _, _, _, _)
PointRow(Gx, cx, cy, halfSize, py, px, color) ==
    IF px > halfSize THEN Gx
    ELSE PointRow(PointPlot(Gx, cx + px, cy + py, color), cx, cy, halfSize, py,
                  px + 1, color)

\* for (py = from; py <= halfSize; py++) of render_point
RECURSIVE PointRows(_, _, _, _, _, _)
PointRows(Gx, cx, cy, halfSize, py, color) ==
    IF py > halfSize THEN Gx
    ELSE PointRows(PointRow(Gx, cx, cy, halfSize, py, -halfSize, color), cx, cy,
                   halfSize, py + 1, color)

RenderPoint(Gx, screenX, screenY, color, pointSize) ==
    LET halfSize == TruncDiv(pointSize, 2)
    IN PointRows(Gx, ToInt(screenX), ToInt(screenY), halfSize, -halfSize, color)

\* one pixel of a batch point with the depth test left out
BatchPlotUntested(Gx, sx, sy, color, depthVal) ==
    IF OnScreen(Gx, sx, sy)
    THEN WritePixel(Gx, sy * Gx.render_width + sx, depthVal, color)
    ELSE Gx

\* one pixel of a batch point: inside the viewport and strictly in front
BatchPlot(Gx, sx, sy, color, depthVal) ==
    IF OnScreen(Gx, sx, sy)
    THEN LET pidx == sy * Gx.render_width + sx
         IN IF depthVal < Gx.depth[pidx]
            THEN WritePixel(Gx, pidx, depthVal, color)
            ELSE Gx
    ELSE Gx

RECURSIVE BatchRow(_, _, _, _, _, _, _, _)
BatchRow(Gx, screenX, screenY, halfSize, py, px, color, depthVal) ==
    IF px > halfSize THEN Gx
    ELSE BatchRow(BatchPlot(Gx, screenX + px, screenY + py, color, depthVal),
                  screenX, screenY, halfSize, py, px + 1, color, depthVal)

RECURSIVE BatchRows(_, _, _, _, _, _, _)
BatchRows(Gx, screenX, screenY, halfSize, py, color, depthVal) ==
    IF py > halfSize THEN Gx
    ELSE BatchRows(BatchRow(Gx, screenX, screenY, halfSize, py, -halfSize, color,
                            depthVal),
                   screenX, screenY, halfSize, py + 1, color, depthVal)

\* (uint16_t)((ndc.z + 1) * 0.5 * 65534), then the bias of 1
BatchDepth(ndcz) ==
    LET depthVal == TruncDiv((ndcz + FX) * 65534, 2 * FX) % U16_RANGE
    IN IF depthVal > 1 THEN depthVal - 1 ELSE 0

\* one index of the batch: transform, the two skips, viewport transform,
\* depth, colour, square
BatchPoint(Gx, v, mvpMatrix, halfSize) ==
    LET clip == mat4_mul_vec4(mvpMatrix, [x |-> v.x, y |-> v.y, z |-> v.z, w |-> FX])
    IN IF clip.w <= 0 THEN Gx
       ELSE LET ndc == Vec3(TruncDiv(clip.x * FX, clip.w), TruncDiv(clip.y * FX, clip.w),
                            TruncDiv(clip.z * FX, clip.w))
            IN IF ndc.x < -FX \/ ndc.x > FX \/ ndc.y < -FX \/ ndc.y > FX THEN Gx
               ELSE BatchRows(Gx, TruncDiv((ndc.x + FX) * Gx.render_width, 2 * FX),
                              TruncDiv((FX - ndc.y) * Gx.render_height, 2 * FX),
                              halfSize, -halfSize,
                              [r |-> v.r % 256, g |-> v.g % 256, b |-> v.b % 256,
                               a |-> ALPHA_GEOMETRY],
                              BatchDepth(ndc.z))

RECURSIVE BatchLoop(_, _, _, _, _, _)
BatchLoop(Gx, vertexData, indices, i, mvpMatrix, halfSize) ==
    IF i > Len(indices) THEN Gx
    ELSE BatchLoop(BatchPoint(Gx, vertexData[indices[i]], mvpMatrix, halfSize),
                   vertexData, indices, i + 1, mvpMatrix, halfSize)

RenderPointsBatch(Gx, vertexData, indices, mvpMatrix, pointSize) ==
    BatchLoop(Gx, vertexData, indices, 1, mvpMatrix, TruncDiv(pointSize, 2))

\* the record of an overlay call: its operation and arguments, for a line
\* the points visited and whether the call returned
NoPoints == <<>>
DrawCall(op, args, points, returned) ==
    [op |-> op, a |-> 0, b |-> 0, c |-> 0, args |-> args, points |-> points,
     returned |-> returned]

StoreBuffers(after) ==
    /\ g_pixels' = after.pixels
    /\ g_depth' = after.depth

draw_line(x0, y0, x1, y1, r, g, b, depth_value) ==
    /\ pc = "idle"
    /\ \E run \in {DrawLine(G, x0, y0, x1, y1, r, g, b, depth_value)} :
          /\ StoreBuffers(run.G)
          /\ pc' = IF run.returned THEN "idle" ELSE "line"
          /\ call' = DrawCall("draw_line", <<x0, y0, x1, y1, r, g, b, depth_value>>,
                              run.points, run.returned)
    /\ UNCHANGED <<resVars, meshVars, bakeVars, texVars, g_current_texture, xformVars,
                   flagVars, cacheVars, cur_t, threadVars, frames, since_clear>>

render_point(screenX, screenY, color, pointSize) ==
    /\ pc = "idle"
    /\ StoreBuffers(RenderPoint(G, screenX, screenY, color, pointSize))
    /\ call' = DrawCall("render_point", <<screenX, screenY, color, pointSize>>,
                        NoPoints, TRUE)
    /\ UNCHANGED <<resVars, meshVars, bakeVars, texVars, g_current_texture, xformVars,
                   flagVars, cacheVars, ctlVars, threadVars, frames, since_clear>>

render_points_batch(vertexData, indices, mvpMatrix, pointSize) ==
    /\ pc = "idle"
    /\ StoreBuffers(RenderPointsBatch(G, vertexData, indices, mvpMatrix, pointSize))
    /\ call' = DrawCall("render_points_batch", <<indices, pointSize>>, NoPoints, TRUE)
    /\ UNCHANGED <<resVars, meshVars, bakeVars, texVars, g_current_texture, xformVars,
                   flagVars, cacheVars, ctlVars, threadVars, frames, since_clear>>

(***************************************************************************)
(* The drawing specification: the scene of two crossing faces at RW x RH,  *)
(* and a host that clears, renders and draws overlays.                     *)
(***************************************************************************)
\* overlay calls in one run
MaxDraws == 2

\* end points in units 1/FX: on-screen, from off-screen to off-screen,
\* steep and reversed, a single point, fractional, and two long ones
LineEnds ==
    {<<0, 0, 8, 4>>, <<-4, -2, 12, 6>>, <<6, 5, 6, -3>>, <<2, 2, 2, 2>>,
     <<-1, 3, 9, 1>>, <<0, 0, 40, 4>>, <<0, 2, -44, 6>>}
LineDepths == {0, 40000, CLEAR_DEPTH}

PointColor == [r |-> 250, g |-> 10, b |-> 20, a |-> 255]
PointCentres == {<<4, 2>>, <<0, 0>>, <<9, 5>>, <<-6, 2>>}
PointSizes == {1, 2, 3, 4}

\* the batch vertices: the centre at three depths, a corner, one outside
\* the NDC square, one behind the camera (with the projective matrix)
BatchVertex(i) ==
    LET xyz == CASE i = 0 -> <<0, 0, 0>> [] i = 1 -> <<0, 0, -FX>>
                 [] i = 2 -> <<-FX, FX, FX>> [] i = 3 -> <<FX + 1, 0, 0>>
                 [] OTHER -> <<0, 0, FX - 1>>
    IN [x |-> xyz[1], y |-> xyz[2], z |-> xyz[3], r |-> 10 + i, g |-> 200, b |-> 90]
BatchData == [i \in 0..4 |-> BatchVertex(i)]
BatchLists == {<<0, 1>>, <<1, 0, 2>>, <<3, 4>>, <<4, 0>>}
BatchSizes == {1, 3}
\* w = -z: a vertex with z >= 0 is behind the camera
BehindMatrix == [i \in 0..15 |-> IF i \in {0, 5, 10} THEN FX ELSE IF i = 14 THEN -FX ELSE 0]
BatchMatrices == {IdentityMatrix, BehindMatrix}

InitDraw ==
    /\ g_render_width = RW
    /\ g_render_height = RH
    /\ g_pixel_count = RW * RH
    /\ InitBuf
    /\ g_vertices = [i \in 0..(NV - 1) |-> SceneVertex(i)]
    /\ g_vertex_count = NV
    /\ g_indices = [i \in 0..(3 * MaxTris - 1) |-> IF i < 6 THEN <<0, 1, 2, 3, 4, 5>>[i + 1] ELSE 0]
    /\ g_index_count = 6
    /\ g_textures = [s \in 0..(MAX_TEXTURES - 1) |-> [o \in 0..(TexLen - 1) |-> TexByte(s, o)]]
    /\ g_texture_sizes = [i \in 0..(2 * MAX_TEXTURES - 1) |-> SceneTexSize(i)]
    /\ g_current_texture = -1
    /\ g_mvp_matrix = IdentityMatrix
    /\ g_model_matrix = IdentityMatrix
    /\ g_light_dir = [i \in 0..3 |-> IF i = 2 THEN -FX ELSE 0]
    /\ g_light_color = [i \in 0..3 |-> FX]
    /\ InitFlags /\ InitCache /\ InitThreads /\ InitBakeVars /\ InitCtl

NextDraw ==
    \/ clear(SceneClearColor[1], SceneClearColor[2], SceneClearColor[3]) /\ UNCHANGED edits
    \/ render_triangles_begin
    \/ render_triangles_iter
    \/ /\ edits < MaxDraws
       /\ edits' = edits + 1
       /\ \E e \in LineEnds, d \in LineDepths :
             draw_line(e[1], e[2], e[3], e[4], 30, 60, 90, d)
    \/ /\ edits < MaxDraws
       /\ edits' = edits + 1
       /\ \E c \in PointCentres, s \in PointSizes :
             render_point(c[1], c[2], PointColor, s)
    \/ /\ edits < MaxDraws
       /\ edits' = edits + 1
       /\ \E l \in BatchLists, m \in BatchMatrices, s \in BatchSizes :
             render_points_batch(BatchData, l, m, s)

SpecDraw == InitDraw /\ [][NextDraw]_vars

\* the indices of the on-screen pixels of the size x size square whose
\* top-left pixel is (ox, oy)
SquarePixels(Gx, ox, oy, size) ==
    {(oy + j) * Gx.render_width + (ox + i) :
        <<i, j>> \in {q \in (0..(size - 1)) \X (0..(size - 1)) :
                         OnScreen(Gx, ox + q[1], oy + q[2])}}

\* C22 as stated: render_point(x, y, color, size) with size >= 1 stores the
\* colour and depth 0 to exactly the on-screen pixels of a square of size
\* pixels per side centred at (x, y) (for an even size the centre is one of
\* the two middle pixels), and changes no other pixel or depth sample.
C22_SizeBySizeSquare ==
    [][call'.op = "render_point" =>
         LET cx == ToInt(call'.args[1])
             cy == ToInt(call'.args[2])
             size == call'.args[4]
         IN \E ox \in {cx - size \div 2, cx - (size - 1) \div 2},
               oy \in {cy - size \div 2, cy - (size - 1) \div 2} :
               \A i \in 0..(BufLen - 1) :
                  IF i \in SquarePixels(G, ox, oy, size)
                  THEN g_pixels'[i] = call'.args[3] /\ g_depth'[i] = 0
                  ELSE g_pixels'[i] = g_pixels[i] /\ g_depth'[i] = g_depth[i]]_vars

(***************************************************************************)
(* The edge functions as rasterize_triangle computes them, in floating     *)
(* point.  The frame operators above evaluate the edge functions exactly   *)
(* (no claim they serve depends on how an edge value is rounded); here     *)
(* every float operation rounds its exact result to a significand of       *)
(* FloatBits bits, to nearest, ties to even.  Coordinates are in units     *)
(* 1/SFX, edge values in units 1/SFX^2; the units are powers of two, so    *)
(* rounding commutes with the change of unit.                              *)
(***************************************************************************)
\* the significand of a float, scaled down with the coordinates (24 bits in
\* the build)
FloatBits == 5

\* the spacing of the floats around magnitude a
RECURSIVE Spacing(_, _)
Spacing(a, step) ==
    IF a < (2 ^ FloatBits) * step THEN step ELSE Spacing(a, 2 * step)

\* the float nearest to n
Fl(n) ==
    LET a == Abs(n)
        step == Spacing(a, 1)
        q == a \div step
        rest == a % step
        up == 2 * rest > step \/ (2 * rest = step /\ q % 2 = 1)
        r == (IF up THEN q + 1 ELSE q) * step
    IN IF n < 0 THEN -r ELSE r

FAdd(a, b) == Fl(a + b)
FSub(a, b) == Fl(a - b)
FMul(a, b) == Fl(a * b)

\* the edge function coefficients
FloatEdges(S) ==
    [A01 |-> FSub(S.y0, S.y1), B01 |-> FSub(S.x1, S.x0),
     A12 |-> FSub(S.y1, S.y2), B12 |-> FSub(S.x2, S.x1),
     A20 |-> FSub(S.y2, S.y0), B20 |-> FSub(S.x0, S.x2)]

\* area = A01 * (x2 - x0) + B01 * (y2 - y0)
FloatArea(S, E) ==
    FAdd(FMul(E.A01, FSub(S.x2, S.x0)), FMul(E.B01, FSub(S.y2, S.y0)))

\* the initial edge values, at the centre of pixel (minX, minY)
FloatStart(S, E) ==
    LET px == Fl(S.minX * SFX + FX)
        py == Fl(S.minY * SFX + FX)
    IN <<FAdd(FMul(E.A12, FSub(px, S.x1)), FMul(E.B12, FSub(py, S.y1))),
         FAdd(FMul(E.A20, FSub(px, S.x2)), FMul(E.B20, FSub(py, S.y2))),
         FAdd(FMul(E.A01, FSub(px, S.x0)), FMul(E.B01, FSub(py, S.y0)))>>

\* w + A * n for the three edges: a lane of the 4-wide path (n = 0..3), the
\* step of the 4-wide path (n = 4) and of the scalar loops (n = 1)
FloatAcross(E, w, n) ==
    <<FAdd(w[1], FMul(E.A12, n) * SFX), FAdd(w[2], FMul(E.A20, n) * SFX),
      FAdd(w[3], FMul(E.A01, n) * SFX)>>

\* w_row += B
FloatDown(E, w) ==
    <<FAdd(w[1], E.B12 * SFX), FAdd(w[2], E.B20 * SFX), FAdd(w[3], E.B01 * SFX)>>

\* the pixels of row y, from x on, that pass the inside test
RECURSIVE CoveredRow(_, _, _, _, _)
CoveredRow(S, E, y, x, w) ==
    IF x > S.maxX THEN {}
    ELSE IF ~S.useTexture /\ x + 3 <= S.maxX
    THEN {<<x + k, y>> : k \in {n \in 0..3 : InsideTest(FloatAcross(E, w, n))}}
         \cup CoveredRow(S, E, y, x + 4, FloatAcross(E, w, 4))
    ELSE (IF InsideTest(w) THEN {<<x, y>>} ELSE {})
         \cup CoveredRow(S, E, y, x + 1, FloatAcross(E, w, 1))

RECURSIVE CoveredRows(_, _, _, _)
CoveredRows(S, E, y, wrow) ==
    IF y > S.maxY THEN {}
    ELSE CoveredRow(S, E, y, S.minX, wrow)
         \cup CoveredRows(S, E, y + 1, FloatDown(E, wrow))

\* the pixels of the triangle (v0, v1, v2) that pass the inside test: the
\* pixels rasterize_triangle writes on a cleared depth buffer
Covered(Gx, v0, v1, v2) ==
    LET S == TriSetup(Gx, v0, v1, v2)
        E == FloatEdges(S)
    IN IF \/ S.minX > S.maxX
          \/ S.minY > S.maxY
          \/ Abs(FloatArea(S, E)) * AREA_EPS_INV < SFX * SFX
       THEN {}
       ELSE CoveredRows(S, E, S.minY, FloatStart(S, E))

\* rasterize_triangle applied to the triangle of the first three indices
\* and to the same triangle with v1 and v2 exchanged
rasterize_windings ==
    /\ pc = "idle"
    /\ call.op # "rasterize_triangle"
    /\ LET v0 == process_vertex(G, g_indices[0])
           v1 == process_vertex(G, g_indices[1])
           v2 == process_vertex(G, g_indices[2])
       IN call' = [op |-> "rasterize_triangle", a |-> 0, b |-> 0, c |-> 0,
                   forward |-> Covered(G, v0, v1, v2),
                   reversed |-> Covered(G, v0, v2, v1)]
    /\ UNCHANGED <<resVars, bufVars, meshVars, bakeVars, texVars, g_current_texture,
                   xformVars, flagVars, cacheVars, ctlVars, threadVars, ghostVars>>

\* vertex positions of the winding specification: the NDC grid of step 1/FX
WindingCoords == (-FX)..FX
WindingVertex(x, y) == [SceneVertex(0) EXCEPT !.x = x, !.y = y]

InitWinding ==
    /\ g_render_width = RW
    /\ g_render_height = RH
    /\ g_pixel_count = RW * RH
    /\ g_pixels = [i \in 0..(BufLen - 1) |-> ClearColor(0, 0, 0)]
    /\ g_depth = [i \in 0..(BufLen - 1) |-> IF i < RW * RH THEN CLEAR_DEPTH ELSE 0]
    /\ \E x1 \in WindingCoords, y1 \in WindingCoords, x2 \in WindingCoords,
          y2 \in WindingCoords :
          g_vertices = [i \in 0..(NV - 1) |->
                           CASE i = 1 -> WindingVertex(x1, y1)
                             [] i = 2 -> WindingVertex(x2, y2)
                             [] OTHER -> WindingVertex(-FX + 1, FX)]
    /\ g_vertex_count = NV
    /\ g_indices = [i \in 0..(3 * MaxTris - 1) |-> IF i < 3 THEN i ELSE 0]
    /\ g_index_count = 3
    /\ g_textures = [s \in 0..(MAX_TEXTURES - 1) |-> [o \in 0..(TexLen - 1) |-> TexByte(s, o)]]
    /\ g_texture_sizes = [i \in 0..(2 * MAX_TEXTURES - 1) |-> SceneTexSize(i)]
    /\ g_current_texture = -1
    /\ g_mvp_matrix = IdentityMatrix
    /\ g_model_matrix = IdentityMatrix
    /\ g_light_dir = [i \in 0..3 |-> IF i = 2 THEN -FX ELSE 0]
    /\ g_light_color = [i \in 0..3 |-> FX]
    /\ g_ambient_light = TruncDiv(FX, 5)
    /\ g_enable_lighting = 0
    /\ g_enable_dithering = 1
    /\ g_enable_texturing = 1
    /\ g_enable_backface_culling = 1
    /\ g_enable_vertex_snapping = 0
    /\ g_enable_smooth_shading = 0
    /\ g_snap_resolution_x = 320
    /\ g_snap_resolution_y = 240
    /\ InitCache /\ InitThreads /\ InitBakeVars /\ InitCtl

NextWinding ==
    \/ rasterize_windings
    \/ /\ edits < MaxEdits
       /\ edits' = edits + 1
       /\ set_current_texture(IF g_current_texture = 0 THEN -1 ELSE 0)

SpecWinding == InitWinding /\ [][NextWinding]_vars

\* C23: with lighting off and the same vertex attributes, rasterizing
\* (v0, v1, v2) and (v0, v2, v1) on the same cleared buffers writes the
\* same set of pixels.
C23_WindingIndependent ==
    call.op = "rasterize_triangle" => call.forward = call.reversed

\* the triangles that cover pixel (x, y) with the smallest 16-bit depth
Nearest(info, x, y) ==
    LET cov == {t \in DOMAIN info : Covers(info[t], x, y)}
    IN {t \in cov : \A t2 \in cov : DepthAt(info[t], x, y) <= DepthAt(info[t2], x, y)}

Touched == {i \in 0..(BufLen - 1) : g_pixels'[i] # g_pixels[i] \/ g_depth'[i] # g_depth[i]}

C30_LineTerminates ==
    call.op = "draw_line" =>
        LET ix0 == ToInt(call.args[1])
            iy0 == ToInt(call.args[2])
            ix1 == ToInt(call.args[3])
            iy1 == ToInt(call.args[4])
        IN /\ call.returned
           /\ Len(call.points) <= Max2(Abs(ix1 - ix0), Abs(iy1 - iy0)) + 1
           /\ call.points[1] = <<ix0, iy0>>
           /\ call.points[Len(call.points)] = <<ix1, iy1>>

\* C26: render_triangles_parallel returns only when every worker it created
\* has finished its range: at the return every range handed out is done,
\* and outside the call no worker is running, so that none can store to the
\* pixel or depth buffer or read its work descriptor after the return.
C26_JoinedBeforeReturn ==
    /\ [](~InParallel => \A i \in 0..(MAX_THREADS - 1) : workers[i].st # "run")
    /\ [][(pc = "join" /\ pc' = "idle") =>
             \A i \in Ranges : workers[i].st = "done" /\ workers'[i] = workers[i]]_vars

\* the call has returned after a frame of at least three created threads,
\* the first and the last of which have written pixels
C26_Witness ==
    /\ ParallelFrameDone
    /\ Cardinality({i \in Ranges : threadCreated[i]}) >= 3
    /\ threadCreated[0]
    /\ \E last \in Ranges :
          /\ threadCreated[last]
          /\ NumTriangles(G) - 1 \in RangeOf(last)
          /\ last # 0
    /\ \A i \in Ranges : workers[i].st = "done"
    /\ \E idx \in 0..(g_pixel_count - 1) : g_pixels[idx].a = ALPHA_GEOMETRY


(***************************************************************************)
(* The threaded path against render_triangles.                             *)
(***************************************************************************)
\* no pixel is covered by triangles of two different ranges
RangesApart ==
    \E scanned \in {Scanned} : \A x \in Columns, y \in Rows :
       \A a, b \in Covering(scanned, x, y) :
          \E i \in Ranges : a \in RangeOf(i) /\ b \in RangeOf(i)

\* the inputs of the frame: the globals over the cleared buffers
FrameInputs ==
    [G EXCEPT !.depth = ClearDepthBuffer([i \in 0..(BufLen - 1) |-> 0], g_pixel_count),
              !.pixels = ClearPixels([i \in 0..(BufLen - 1) |-> ZeroPixel], g_pixel_count,
                                     ClearColor(SceneClearColor[1], SceneClearColor[2],
                                                SceneClearColor[3]))]

SameBuffers(Gx) == g_pixels = Gx.pixels /\ g_depth = Gx.depth

\* C27: a call of render_triangles_parallel with fewer than 64 triangles or
\* a thread count of 1 hands out no range and creates no thread, and leaves
\* the pixel and the depth buffer as render_triangles leaves them on the
\* same inputs; a call that takes the threaded path does so too, whatever
\* the interleaving of the workers' loads and stores, when no pixel is
\* covered by triangles of two different ranges.
C27_ParallelAsSequential ==
    LET sequential == NumTriangles(G) < 64 \/ g_thread_count <= 1
    IN /\ (call.op = "render_triangles_parallel" /\ sequential) =>
             /\ ~InParallel
             /\ Ranges = {}
             /\ \A i \in 0..(MAX_THREADS - 1) : ~threadCreated[i]
       /\ (pc = "idle" /\ call.op = "render_triangles_parallel" /\ since_clear = 1) =>
             ((sequential \/ RangesApart) => SameBuffers(RenderTriangles(FrameInputs)))

\* threads of two ranges have drawn faces into the same rows, one of them
\* two faces over the same pixels, and a face outside the depth range was
\* left out
C27_Witness ==
    /\ ParallelFrameDone
    /\ since_clear = 1
    /\ RangesApart
    /\ \E scanned \in {Scanned} :
          /\ 1 \notin scanned
          /\ \E i, j \in Ranges :
                /\ i # j /\ threadCreated[i] /\ threadCreated[j]
                /\ \E a \in RangeOf(i) \cap scanned, b, c \in RangeOf(j) \cap scanned :
                      /\ b # c
                      /\ \E y \in Rows, xa, xb \in Columns :
                            /\ Covers(TriInfo(G, a), xa, y)
                            /\ Covers(TriInfo(G, b), xb, y)
                            /\ Covers(TriInfo(G, c), xb, y)
                            /\ g_pixels[y * g_render_width + xa].a = ALPHA_GEOMETRY
                            /\ g_pixels[y * g_render_width + xb].a = ALPHA_GEOMETRY
    /\ SameBuffers(RenderTriangles(FrameInputs))

(***************************************************************************)
(* The cache entries under the lighting of the front-end.                  *)
(***************************************************************************)
\* the vertices of triangle cur_t
CurrentIndices == {g_indices[cur_t * 3], g_indices[cur_t * 3 + 1], g_indices[cur_t * 3 + 2]}

\* C28: an iteration of the loop of render_triangles leaves every flagged
\* cache entry as it is and writes an unflagged one only with the result
\* of process_vertex, whatever lighting it applies; and the three vertices
\* that the iteration lights and hands on (normals and lights included) are
\* those lit from process_vertex of the current inputs, whichever
\* triangles sharing them came before.
C28_CopiesAreLit ==
    /\ [](pc = "render" =>
             \E G3 \in {AfterLookups(G, cur_t)} :
                LitVertices(G3, G3.vertex_cache[g_indices[cur_t * 3]],
                            G3.vertex_cache[g_indices[cur_t * 3 + 1]],
                            G3.vertex_cache[g_indices[cur_t * 3 + 2]])
                   = LitVertices(G, process_vertex(G, g_indices[cur_t * 3]),
                                 process_vertex(G, g_indices[cur_t * 3 + 1]),
                                 process_vertex(G, g_indices[cur_t * 3 + 2])))
    /\ [][pc = "render" =>
             \A i \in 0..(NV - 1) :
                g_vertex_cache'[i] =
                   IF g_vertex_processed[i] = 0 /\ i \in CurrentIndices
                   THEN process_vertex(G, i) ELSE g_vertex_cache[i]]_vars

\* under smooth shading a back face has been lit, with normals turned
\* round, and the front face that comes next shares a vertex with it: the
\* cache holds the vertex with the normal of process_vertex, which lighting
\* would turn round again for a back face and leaves for this one
C28_Witness ==
    /\ pc = "render"
    /\ cur_t >= 1
    /\ g_enable_lighting # 0
    /\ g_enable_smooth_shading # 0
    /\ \E before \in {TriInfo(G, cur_t - 1)}, now \in {TriInfo(G, cur_t)} :
          /\ before.disp /\ before.back
          /\ now.disp /\ ~now.back
          /\ \E i \in CurrentIndices :
                /\ i \in {g_indices[(cur_t - 1) * 3 + k] : k \in 0..2}
                /\ g_vertex_processed[i] = 1
                /\ g_vertex_cache[i] = process_vertex(G, i)
                /\ SmoothLit(G, g_vertex_cache[i], TRUE) # g_vertex_cache[i]
                /\ SmoothLit(G, g_vertex_cache[i], TRUE).light
                      # SmoothLit(G, g_vertex_cache[i], FALSE).light

(***************************************************************************)
(* The entry of the stack that a bake writes.                              *)
(***************************************************************************)
\* C29: when a program has run to END (or to an unknown opcode) with at
\* least one entry on the stack, every pixel the bake writes is entry 0 of
\* the stack, the entry pushed first that is still there, in the lane of
\* that pixel; the entries above it do not show.
C29_OutputIsBottomEntry ==
    [][(BakeRan /\ RunProgram(g_bake_program, StartMachine).sp >= 1) =>
         \E m \in {RunProgram(g_bake_program, StartMachine)} :
            \A y \in 0..(g_bake_height - 1), x \in 0..(g_bake_width - 1) :
               LET outIdx == (y * g_bake_width + x) * 4
                   lane == (x % BAKE_GROUP) + 1
               IN /\ g_bake_output'[outIdx] = m.stack[0].r[lane] % 256
                  /\ g_bake_output'[outIdx + 1] = m.stack[0].g[lane] % 256
                  /\ g_bake_output'[outIdx + 2] = m.stack[0].b[lane] % 256
                  /\ g_bake_output'[outIdx + 3] = m.stack[0].a[lane] % 256]_vars

\* FLAT_COLOR(10, 20, 30, 40), FLAT_COLOR(50, 60, 70, 80), END has been
\* baked: the stack ends with two entries and the pixels are the first
C29_Witness ==
    /\ call.op = "bake_material"
    /\ g_bake_width = 5 /\ g_bake_height = 1
    /\ \A i \in 0..(Len(TwoPushProgram) - 1) : g_bake_program[i] = TwoPushProgram[i + 1]
    /\ \E m \in {RunProgram(g_bake_program, StartMachine)} :
          /\ m.stop = "done"
          /\ m.sp = 2
          /\ m.stack[1] = StackEntry(Splat(50), Splat(60), Splat(70), Splat(80))
          /\ m.stack[0] # m.stack[1]
    /\ \A i \in 0..19 : g_bake_output[i] = <<10, 20, 30, 40>>[(i % 4) + 1]
====
